---- MODULE Spec2Model ----
(***************************************************************************)
(* A model of the SSIS migration parser: the per-package converter         *)
(* (DTSXToIRConverter.convert_file with DTSXReader and                     *)
(* SSISSecurityHandler), the precedence-constraint validator, the          *)
(* project-level structure analysis and the transformation-only           *)
(* classification of an IRPackage.                                         *)
(***************************************************************************)
EXTENDS Integers, Sequences, FiniteSets, TLC

VARIABLES
    \* ---- DTSXToIRConverter.convert_file ----
    doc,          \* the package document on disk
    password,     \* DTSXToIRConverter.password / SSISSecurityHandler.password
    pc,           \* position inside convert_file
    locals,       \* metadata, connection_managers, executables, ir_package
    reader_cms,   \* what DTSXReader.get_connection_managers returned
    raised,       \* the exception in flight ("" when none)
    result,       \* the (IRPackage, MigrationReport) pair returned
    \* ---- PrecedenceParser.validate_constraints ----
    v_edges,      \* edges: the precedence edges passed in
    v_task_ids,   \* all_task_ids
    v_issues,     \* the list returned
    v_roots,      \* the list get_root_tasks returned
    v_pc,         \* "call" before the calls, "done" after validate_constraints,
                  \* "rooted" after get_root_tasks
    \* ---- SSISProjectParser.analyze_project_structure ----
    p_packages,   \* project.packages: the package names, in project order
    p_deps,       \* project.dependencies
    p_pc,         \* position inside the analysis
    p_graph,      \* dependency_graph
    p_analysis,   \* analysis: entry_points, isolated_packages, execution_chains
    p_ep,         \* index of the entry point whose chain is being traced
    p_stack,      \* the active calls of _trace_execution_chain, innermost last
    \* ---- SSISProjectParser.parse_project ----
    pp_docs,         \* the .dtsx files of the project, in packages order
    pp_i,            \* the package whose file is read next
    pp_dependencies, \* dependencies, as collected so far
    pp_pc,           \* "scan", then "returned" or "raised"
    pp_project,      \* the SSISProject returned
    \* ---- convert_project_to_ir ----
    cp_args,      \* password and anthropic_key
    cp_pc,        \* "call", then "returned" or "raised"
    cp_raised,    \* the exception that left the call ("" when none)
    ir_project,   \* the IRProject returned
    \* ---- IRPackage.is_transformation_only ----
    t_executables, \* self.executables: type and components of each
    t_result,      \* the value returned
    t_pc,          \* "call" before the call, "done" after it
    \* ---- DataFlowParser ----
    component_id_map,  \* self.component_id_map
    path_connections,  \* self.path_connections
    df_pipelines,      \* the ObjectData elements handed to parse_dataflow, in turn
    df_results,  \* per call made: what it raised, executable.components
    \* ---- ir_to_json / ir_from_json / json_to_ir_package ----
    j_package,    \* the IRPackage serialized
    j_json,       \* the JSON document ir_to_json returned
    j_back,       \* what the deserializer raised, and the IRPackage it returned
    j_pc,  \* "dump", "load", then "done"
    \* ---- SSISSecurityHandler.handle_protection_level ----
    s_level,      \* protection_level
    s_password,   \* self.password
    s_input,      \* the contents of the properties dict when the call is made
    s_heap,       \* the dict objects: 1 is the one passed in, 2 the next allocated
    s_out,        \* what the call raised, and the dict object it returned
    s_pc,  \* "call" before the call, "done" after it
    \* ---- IRProject.recommend_migration_strategy / generate_master_dag ----
    m_packages,        \* ir_project.packages: the package names
    m_dependencies,    \* ir_project.dependencies
    m_entry_points,    \* ir_project.entry_points
    m_transformation,  \* per package: package_irs[name].is_transformation_only()
    m_strategy,        \* the dict recommend_migration_strategy returned
    m_files,           \* the keys of the dict generate_master_dag returned
    m_pc,  \* "call", "recommended", "generated"
    \* ---- one DTSXToIRConverter, over its calls ----
    calls,  \* the calls of convert_file that returned: document, exception, IRPackage
    \* ---- DataFlowParser._parse_paths / _wire_components ----
    w_path_connections,  \* self.path_connections
    w_components,        \* the component list handed to _wire_components
    w_calls,  \* the number of calls made on the parser so far
    w_last,  \* the last call made ("" before the first)
    \* ---- PrecedenceParser.parse_precedence_constraints ----
    k_constraints,  \* the DTS:PrecedenceConstraint elements below root, in document order
    k_edges,        \* the list returned
    k_pc,  \* "call" before the call, "done" after it
    \* ---- group_parallel_tasks / _identify_parallel_groups ----
    g_edges,             \* edges: the PrecedenceEdge list both are given
    g_parallel_groups,   \* what PrecedenceParser.group_parallel_tasks returned
    g_generator_groups,  \* what AirflowDAGGenerator._identify_parallel_groups returned
    g_pc,  \* "call", "grouped", "done"
    \* ---- the project connection managers ----
    x_conmgr,               \* the ConnectionManager elements of the connections file
    x_connection_managers,  \* SSISProject.connection_managers
    x_project_connections,  \* IRProject.project_connections
    x_raised,               \* the exception that left _build_ir_project_metadata
    x_pc,  \* "parse", "parsed", "built", "raised"
    \* ---- ProjectToIRConverter._analyze_project_dependencies ----
    f_dependencies,   \* ir_project.dependencies
    f_pc   \* "wait" until the parent package is converted, then "done"

convVars == <<doc, password, pc, locals, reader_cms, raised, result>>
valVars == <<v_edges, v_task_ids, v_issues, v_roots, v_pc>>
projVars == <<p_packages, p_deps, p_pc, p_graph, p_analysis, p_ep, p_stack>>

parseVars == <<pp_docs, pp_i, pp_dependencies, pp_pc, pp_project>>

cpVars == <<cp_args, cp_pc, cp_raised, ir_project>>

transVars == <<t_executables, t_result, t_pc>>

dfVars == <<component_id_map, path_connections, df_pipelines, df_results>>

jsonVars == <<j_package, j_json, j_back, j_pc>>

secVars == <<s_level, s_password, s_input, s_heap, s_out, s_pc>>

stratVars == <<m_packages, m_dependencies, m_entry_points, m_transformation,
               m_strategy, m_files, m_pc>>

histVars == <<calls>>

wireVars == <<w_path_connections, w_components, w_calls, w_last>>

precVars == <<k_constraints, k_edges, k_pc>>

groupVars == <<g_edges, g_parallel_groups, g_generator_groups, g_pc>>

connVars == <<x_conmgr, x_connection_managers, x_project_connections, x_raised, x_pc>>

invVars == <<f_dependencies, f_pc>>

vars == <<convVars, valVars, projVars, transVars, dfVars, parseVars, cpVars, jsonVars, secVars, stratVars, histVars, wireVars, precVars, groupVars, connVars, invVars>>

\* what the operations of one object leave alone: the other objects
convFrame == <<valVars, projVars, transVars, dfVars, parseVars, cpVars, jsonVars, secVars, stratVars, histVars, wireVars, precVars, groupVars, connVars, invVars>>
valFrame == <<convVars, projVars, transVars, dfVars, parseVars, cpVars, jsonVars, secVars, stratVars, histVars, wireVars, precVars, groupVars, connVars, invVars>>
projFrame == <<convVars, valVars, transVars, dfVars, parseVars, cpVars, jsonVars, secVars, stratVars, histVars, wireVars, precVars, groupVars, connVars, invVars>>
transFrame == <<convVars, valVars, projVars, dfVars, parseVars, cpVars, jsonVars, secVars, stratVars, histVars, wireVars, precVars, groupVars, connVars, invVars>>
dfFrame == <<convVars, valVars, projVars, transVars, parseVars, cpVars, jsonVars, secVars, stratVars, histVars, wireVars, precVars, groupVars, connVars, invVars>>
parseFrame == <<convVars, valVars, projVars, transVars, dfVars, cpVars, jsonVars, secVars, stratVars, histVars, wireVars, precVars, groupVars, connVars, invVars>>
cpFrame == <<convVars, valVars, projVars, transVars, dfVars, parseVars, jsonVars, secVars, stratVars, histVars, wireVars, precVars, groupVars, connVars, invVars>>
jsonFrame == <<convVars, valVars, projVars, transVars, dfVars, parseVars, cpVars, secVars, stratVars, histVars, wireVars, precVars, groupVars, connVars, invVars>>
secFrame == <<convVars, valVars, projVars, transVars, dfVars, parseVars, cpVars, jsonVars, stratVars, histVars, wireVars, precVars, groupVars, connVars, invVars>>
stratFrame == <<convVars, valVars, projVars, transVars, dfVars, parseVars, cpVars, jsonVars, secVars, histVars, wireVars, precVars, groupVars, connVars, invVars>>
histFrame == <<convVars, valVars, projVars, transVars, dfVars, parseVars, cpVars, jsonVars, secVars, stratVars, wireVars, precVars, groupVars, connVars, invVars>>
wireFrame == <<convVars, valVars, projVars, transVars, dfVars, parseVars, cpVars, jsonVars, secVars, stratVars, histVars, precVars, groupVars, connVars, invVars>>
repeatFrame == <<valVars, projVars, transVars, dfVars, parseVars, cpVars, jsonVars, secVars, stratVars, wireVars, precVars, groupVars, connVars, invVars>>
precFrame == <<convVars, valVars, projVars, transVars, dfVars, parseVars, cpVars, jsonVars, secVars, stratVars, histVars, wireVars, groupVars, connVars, invVars>>
groupFrame == <<convVars, valVars, projVars, transVars, dfVars, parseVars, cpVars, jsonVars, secVars, stratVars, histVars, wireVars, precVars, connVars, invVars>>
connFrame == <<convVars, valVars, projVars, transVars, dfVars, parseVars, cpVars, jsonVars, secVars, stratVars, histVars, wireVars, precVars, groupVars, invVars>>
invFrame == <<convVars, valVars, projVars, transVars, dfVars, parseVars, cpVars, jsonVars, secVars, stratVars, histVars, wireVars, precVars, groupVars, connVars>>

-----------------------------------------------------------------------------
(* Bounds of the enumerated documents *)

MaxCMs   == 2   \* DTS:ConnectionManager elements in a document
MaxProps == 2   \* DTS:Property elements in a document, over all managers
MaxExes  == 1   \* DTS:Executable elements below the root
MaxIds   == 3   \* distinct task ids that edges may name
MaxEdges == 3   \* precedence edges passed to validate_constraints
MaxPkgs  == 3   \* packages of a project
MaxDeps  == 3   \* ExecutePackageTask dependencies of a project
MaxExecutables == 2   \* executables of a classified IRPackage
MaxComps == 1   \* data-flow components of a classified IRPackage, over all executables
MaxScanned == 2   \* package files of a scanned project
MaxTargets == 2   \* PackageName properties, over all package files
MaxFlows == 2   \* data flows handed to one DataFlowParser
MaxFlowComps == 2   \* Pipeline:component elements, over all data flows
MaxPaths == 1   \* Pipeline:path elements, over all data flows
MaxConstraints == 2   \* DTS:PrecedenceConstraint elements in a document
MaxRecords == 2   \* records of a serialized IRPackage, over all its collections
MaxWireCalls == 4   \* calls made on one DataFlowParser
MaxConnections == 2   \* entries of path_connections
MaxCalls == 2   \* calls of convert_file one converter has returned from before the last

-----------------------------------------------------------------------------
(* Values *)

REDACTED == "[REDACTED]"
NoPassword == "None"
Stem == "package1"          \* dtsx_path.stem
ObjectName == "Package1"    \* DTS:ObjectName of the root

ProtectionLevel ==
    {"DontSaveSensitive", "EncryptSensitiveWithPassword",
     "EncryptSensitiveWithUserKey", "EncryptAllWithPassword",
     "EncryptAllWithUserKey"}

\* The DTS:ProtectionLevel attribute as written in a document: a member of
\* the enumeration, a string outside it, or absent ("").
RawProtection == ProtectionLevel \cup {"ServerStorage", ""}

PropertyNames == {"Password", "PASSWORD", "UserID", "Timeout"}

\* str.lower() on the property names that occur
Lower(s) ==
    CASE s = "Password" -> "password"
      [] s = "PASSWORD" -> "password"
      [] s = "UserID"   -> "userid"
      [] s = "Timeout"  -> "timeout"
      [] OTHER          -> s

sensitive_properties ==
    {"password", "connectionstring", "userpassword", "servername",
     "userid", "username", "initialcatalog", "database",
     "sqlstatement", "commandtext"}

\* The keys DTSXReader.get_connection_managers redacts while reading
reader_redacted_keys == {"password", "connectionstring"}

RawExecutableTypes == {"Microsoft.ExecuteSQLTask", "SSIS.ExecutePackageTask"}

\* DTSXReader._map_executable_type: the mapping table; "" is None
_map_executable_type(exe_type) ==
    CASE exe_type = "Microsoft.ExecuteSQLTask" -> "ExecuteSQL"
      [] exe_type = "Microsoft.Pipeline" -> "DataFlow"
      [] exe_type = "Microsoft.ScriptTask" -> "ScriptTask"
      [] exe_type = "Microsoft.SqlServer.Dts.Tasks.ExecuteSQLTask.ExecuteSQLTask" -> "ExecuteSQL"
      [] exe_type = "Microsoft.SqlServer.Dts.Pipeline.Wrapper.TaskHost" -> "DataFlow"
      [] exe_type = "STOCK:SEQUENCE" -> "SequenceContainer"
      [] exe_type = "STOCK:FOREACHLOOP" -> "ForEachLoop"
      [] exe_type = "STOCK:FORLOOP" -> "ForLoop"
      [] exe_type = "Microsoft.BulkInsertTask" -> "BulkInsert"
      [] exe_type = "Microsoft.FileSystemTask" -> "FileSystem"
      [] exe_type = "Microsoft.FtpTask" -> "FTP"
      [] exe_type = "Microsoft.SendMailTask" -> "SendMail"
      [] OTHER -> ""

\* The member names of class ExecutableType(str, Enum), by value
ExecutableTypeMember(type) ==
    CASE type = "ExecuteSQL" -> "EXECUTE_SQL"
      [] type = "DataFlow" -> "DATA_FLOW"
      [] type = "ScriptTask" -> "SCRIPT_TASK"
      [] type = "SequenceContainer" -> "SEQUENCE_CONTAINER"
      [] type = "ForEachLoop" -> "FOREACH_LOOP"
      [] type = "ForLoop" -> "FOR_LOOP"
      [] type = "BulkInsert" -> "BULK_INSERT"
      [] type = "ExecutePackage" -> "EXECUTE_PACKAGE"
      [] type = "FileSystem" -> "FILE_SYSTEM"
      [] type = "FTP" -> "FTP"
      [] type = "SendMail" -> "SEND_MAIL"
      [] type = "WebService" -> "WEB_SERVICE"
      [] OTHER -> type

\* str(executable.type): Executable keeps the enumeration member, and str()
\* of a member of an Enum with a str mixin is "ClassName.MEMBER"
str_type(type) == "ExecutableType." \o ExecutableTypeMember(type)

-----------------------------------------------------------------------------
(* The documents convert_file is run on *)

\* A DTS:Property element below a connection manager: its DTS:Name and text
PropElems ==
    {[name |-> k, text |-> "raw"] : k \in PropertyNames}
        \cup {[name |-> "Timeout", text |-> ""]}

PropSeqs(n) == UNION {[1..k -> PropElems] : k \in 0..n}

\* A DTS:ConnectionManager element: with refId and ObjectName (has_ids) or
\* lacking one of them, and its DTS:Property descendants
CMElems(n) ==
    {[has_ids |-> TRUE, props |-> ps] : ps \in PropSeqs(n)}
        \cup {[has_ids |-> FALSE, props |-> <<>>]}

\* Lists of at most c connection managers holding at most p properties
RECURSIVE CMLists(_, _)
CMLists(c, p) ==
    IF c = 0 THEN {<<>>}
    ELSE {<<>>} \cup
         UNION {{<<cm>> \o rest : rest \in CMLists(c - 1, p - Len(cm.props))}
                    : cm \in CMElems(p)}

\* an executable element without a DTS:ObjectData child
NoObjectData ==
    [has_object_data |-> FALSE, has_pipeline |-> FALSE,
     components |-> <<>>, paths |-> <<>>]

ExeLists == UNION {[1..k -> RawExecutableTypes] : k \in 0..MaxExes}

WellFormedDocs ==
    {[root |-> "DTS:Executable", protection |-> pl, cms |-> cl, exes |-> el,
      object_data |-> [i \in DOMAIN el |-> NoObjectData], edges |-> <<>>]
        : pl \in RawProtection, cl \in CMLists(MaxCMs, MaxProps), el \in ExeLists}

\* "invalid xml content": no DTS:Executable root can be recovered
InvalidDoc ==
    [root |-> "", protection |-> "", cms |-> <<>>, exes |-> <<>>,
     object_data |-> <<>>, edges |-> <<>>]

Docs == WellFormedDocs \cup {InvalidDoc}

\* A DTS:PrecedenceConstraint element: the refIds in DTS:From and DTS:To (the
\* executable at that position of the document; 0 when the attribute is
\* missing, MaxExes + 1 names no element), DTS:Value ("" when missing), and
\* the three places an expression can stand in: the text of a DTS:Property
\* named Expression, the text of a DTS:Expression element and the
\* Expression attribute of DTS:ObjectData ("" when missing or empty)
Constraint(f, t, v) ==
    [from |-> f, to |-> t, value |-> v,
     property |-> "", nested |-> "", inline |-> ""]

ConstraintElems ==
    {Constraint(f, t, "") : f \in 1..(MaxExes + 1), t \in 1..(MaxExes + 1)}
    \cup {Constraint(0, 1, "Success"),
          Constraint(1, 0, "Success"),
          Constraint(1, MaxExes + 1, "Bogus"),
          Constraint(MaxExes + 1, 1, "2")}

ConstraintLists == UNION {[1..k -> ConstraintElems] : k \in 0..MaxConstraints}

\* Documents with precedence constraints between their executables
EdgeDocs ==
    {[root |-> "DTS:Executable", protection |-> pl, cms |-> <<>>, exes |-> el,
      object_data |-> [i \in DOMAIN el |-> NoObjectData], edges |-> cl]
        : pl \in {"DontSaveSensitive", "EncryptSensitiveWithUserKey"},
          el \in ExeLists, cl \in ConstraintLists}

Passwords == {NoPassword, "pw"}

-----------------------------------------------------------------------------
(* DTSXReader *)

EmptyDict == [k \in {} |-> ""]

\* properties[prop_name] = value
Put(d, k, v) == [x \in DOMAIN d \cup {k} |-> IF x = k THEN v ELSE d[x]]

\* get_package_metadata: `if not self.root` is true of an lxml element
\* without children, so a root without child elements is "not loaded"
RootHasChildren(d) == Len(d.cms) + Len(d.exes) + Len(d.edges) > 0

get_package_metadata_of_last_reader(d) ==
    [package_name |-> ObjectName,
     protection_level |->
        IF calls # <<>> THEN calls[Len(calls)].package.protection_level
        ELSE IF d.protection \in ProtectionLevel THEN d.protection
        ELSE "DontSaveSensitive"]

get_package_metadata(d) ==
    [package_name |-> ObjectName,
     protection_level |->
        IF d.protection \in ProtectionLevel THEN d.protection
        ELSE "DontSaveSensitive"]

\* What the reader stores for one DTS:Property of a connection manager
ReaderStoredValue(prop) ==
    IF Lower(prop.name) \in reader_redacted_keys THEN REDACTED ELSE prop.text

\* The property loop of get_connection_managers
RECURSIVE ReadProperties(_, _)
ReadProperties(props, d) ==
    IF props = <<>> THEN d
    ELSE LET prop == Head(props) IN
         ReadProperties(Tail(props),
            IF prop.name # "" /\ prop.text # ""
            THEN Put(d, prop.name, ReaderStoredValue(prop))
            ELSE d)

\* get_connection_managers: one record per element that has refId and
\* ObjectName; the id is the element's position in the document
RECURSIVE ReadConnectionManagers(_, _)
ReadConnectionManagers(cms, i) ==
    IF i > Len(cms) THEN <<>>
    ELSE (IF cms[i].has_ids
          THEN <<[id |-> i, properties |-> ReadProperties(cms[i].props, EmptyDict)]>>
          ELSE <<>>)
         \o ReadConnectionManagers(cms, i + 1)

get_connection_managers(d) == ReadConnectionManagers(d.cms, 1)

\* get_executables: only elements whose type is in the mapping table
RECURSIVE ReadExecutables(_, _)
ReadExecutables(exes, i) ==
    IF i > Len(exes) THEN <<>>
    ELSE (IF _map_executable_type(exes[i]) # ""
          THEN <<[id |-> i, type |-> _map_executable_type(exes[i]),
                  components |-> <<>>]>>
          ELSE <<>>)
         \o ReadExecutables(exes, i + 1)

get_executables(d) == ReadExecutables(d.exes, 1)

-----------------------------------------------------------------------------
(* SSISSecurityHandler *)

_is_sensitive_property(property_name) ==
    Lower(property_name) \in sensitive_properties

_redact_sensitive_properties(properties) ==
    [k \in DOMAIN properties |->
        IF _is_sensitive_property(k) THEN REDACTED ELSE properties[k]]

\* `not self.password`
NoPasswordGiven(pw) == pw \in {NoPassword, ""}

\* _decrypt_sensitive_properties: a placeholder that redacts
_decrypt_sensitive_properties_impl(properties) ==
    [k \in DOMAIN properties |->
        IF _is_sensitive_property(k) THEN "decrypted" ELSE properties[k]]

_decrypt_sensitive_properties(properties) ==
    _redact_sensitive_properties(properties)

\* _decrypt_all_properties: a placeholder that raises NotImplementedError
_decrypt_all_properties(properties) ==
    [raised |-> "Full package decryption requires SSIS runtime or specialized tools",
     value |-> EmptyDict]

\* handle_protection_level: the secured map, or the exception it raises
handle_protection_level(pw, protection_level, properties) ==
    CASE protection_level = "DontSaveSensitive" ->
            [raised |-> "", value |-> _redact_sensitive_properties(properties)]
      [] protection_level \in {"EncryptSensitiveWithPassword",
                               "EncryptSensitiveWithUserKey"} ->
            IF NoPasswordGiven(pw)
               /\ protection_level = "EncryptSensitiveWithPassword"
            THEN [raised |-> "",
                  value |-> _redact_sensitive_properties(properties)]
            ELSE [raised |-> "",
                  value |-> _decrypt_sensitive_properties(properties)]
      [] protection_level \in {"EncryptAllWithPassword",
                               "EncryptAllWithUserKey"} ->
            IF NoPasswordGiven(pw) /\ protection_level = "EncryptAllWithPassword"
            THEN [raised |-> "Password required for encrypted package",
                  value |-> EmptyDict]
            ELSE _decrypt_all_properties(properties)
      [] OTHER -> [raised |-> "", value |-> properties]

\* validate_security_compliance: the warnings, as kind and argument. The
\* tasks of the documents carry no SQL text, so no task is reported for
\* hardcoded credentials.
validate_security_compliance(package_data) ==
    LET redacted_connections ==
            SelectSeq(package_data.connection_managers,
                      LAMBDA c : \E k \in DOMAIN c.properties :
                                    c.properties[k] = REDACTED)
    IN (IF redacted_connections # <<>>
        THEN <<[kind |-> "redacted_connections",
                ref |-> <<Len(redacted_connections)>>]>>
        ELSE <<>>)
       \o (IF package_data.protection_level = "DontSaveSensitive"
           THEN <<[kind |-> "dont_save_sensitive", ref |-> <<>>]>>
           ELSE <<>>)

-----------------------------------------------------------------------------
(* PrecedenceParser *)

_map_precedence_condition_defaulting(value) ==
    CASE value = "Failure" -> "Failure"
      [] value = "Completion" -> "Completion"
      [] value = "Expression" -> "Expression"
      [] value = "1" -> "Failure"
      [] value = "2" -> "Completion"
      [] value = "3" -> "Expression"
      [] OTHER -> "Success"

\* _map_precedence_condition: the mapping table; "" is None, and a missing
\* DTS:Value (also "") defaults to Success before the table is consulted
_map_precedence_condition(value) ==
    CASE value = "" -> "Success"
      [] value = "Success" -> "Success"
      [] value = "Failure" -> "Failure"
      [] value = "Completion" -> "Completion"
      [] value = "Expression" -> "Expression"
      [] value = "0" -> "Success"
      [] value = "1" -> "Failure"
      [] value = "2" -> "Completion"
      [] value = "3" -> "Expression"
      [] OTHER -> ""

\* str.strip() on the texts that occur
strip(text) ==
    CASE text = " "   -> ""
      [] text = " p " -> "p"
      [] OTHER        -> text

\* _extract_expression: the stripped text of the first place that holds a
\* non-empty text; "None" is None
_extract_expression(constraint) ==
    IF constraint.property # "" THEN strip(constraint.property)
    ELSE IF constraint.nested # "" THEN strip(constraint.nested)
    ELSE IF constraint.inline # "" THEN strip(constraint.inline)
    ELSE "None"

\* _parse_single_constraint: the PrecedenceEdge of one DTS:PrecedenceConstraint
\* element, in a list; the empty list is None. From and To are the refIds
\* the element names, 0 when the attribute is missing or empty.
_parse_single_constraint(constraint) ==
    IF constraint.from = 0 \/ constraint.to = 0 THEN <<>>
    ELSE IF _map_precedence_condition(constraint.value) = "" THEN <<>>
    ELSE <<[from_task |-> constraint.from,
            to_task |-> constraint.to,
            condition |-> _map_precedence_condition(constraint.value),
            expression |->
                IF _map_precedence_condition(constraint.value) = "Expression"
                THEN _extract_expression(constraint)
                ELSE "None"]>>

RECURSIVE parse_precedence_constraints(_)
parse_precedence_constraints(constraints) ==
    IF constraints = <<>> THEN <<>>
    ELSE _parse_single_constraint(Head(constraints))
            \o parse_precedence_constraints(Tail(constraints))

\* build_dependency_graph: from-id -> the to-ids in edge order
RECURSIVE build_dependency_graph(_)
build_dependency_graph(edges) ==
    IF edges = <<>> THEN EmptyDict
    ELSE LET graph == build_dependency_graph(SubSeq(edges, 1, Len(edges) - 1))
             edge == edges[Len(edges)]
         IN Put(graph, edge.from_task,
                Append(IF edge.from_task \in DOMAIN graph
                       THEN graph[edge.from_task] ELSE <<>>,
                       edge.to_task))

\* graph.get(node, [])
GraphGet(graph, node) == IF node \in DOMAIN graph THEN graph[node] ELSE <<>>

\* has_cycle(node), with the closure variables visited and rec_stack passed
\* in and handed back; VisitNeighbors is its for loop from neighbour i on
RECURSIVE has_cycle(_, _, _, _)
RECURSIVE VisitNeighbors(_, _, _, _, _)
has_cycle(graph, node, visited, rec_stack) ==
    LET r == VisitNeighbors(graph, node, 1,
                            visited \cup {node}, rec_stack \cup {node})
    IN IF r.found THEN r
       ELSE [found |-> FALSE, visited |-> r.visited,
             rec_stack |-> r.rec_stack \ {node}]

VisitNeighbors(graph, node, i, visited, rec_stack) ==
    IF i > Len(GraphGet(graph, node))
    THEN [found |-> FALSE, visited |-> visited, rec_stack |-> rec_stack]
    ELSE LET neighbor == GraphGet(graph, node)[i] IN
         IF neighbor \notin visited
         THEN LET r == has_cycle(graph, neighbor, visited, rec_stack) IN
              IF r.found THEN r
              ELSE VisitNeighbors(graph, node, i + 1, r.visited, r.rec_stack)
         ELSE IF neighbor \in rec_stack
              THEN [found |-> TRUE, visited |-> visited, rec_stack |-> rec_stack]
              ELSE VisitNeighbors(graph, node, i + 1, visited, rec_stack)

\* get_root_tasks: the ids that are the to_task of no edge, in list order
get_root_tasks(edges, all_task_ids) ==
    SelectSeq(all_task_ids,
              LAMBDA task_id :
                  task_id \notin {edges[i].to_task : i \in DOMAIN edges})

CycleIssuesOfFirstTask(graph, all_task_ids, i, visited, rec_stack) ==
    IF i > Len(all_task_ids) THEN <<>>
    ELSE IF has_cycle(graph, all_task_ids[i], visited, rec_stack).found
         THEN <<[kind |-> "cycle", ref |-> <<>>]>>
         ELSE <<>>

\* for task_id in all_task_ids: if task_id not in visited: if has_cycle(...):
\* append the warning and break
RECURSIVE CycleIssues(_, _, _, _, _)
CycleIssues(graph, all_task_ids, i, visited, rec_stack) ==
    IF i > Len(all_task_ids) THEN <<>>
    ELSE IF all_task_ids[i] \in visited
         THEN CycleIssues(graph, all_task_ids, i + 1, visited, rec_stack)
         ELSE LET r == has_cycle(graph, all_task_ids[i], visited, rec_stack) IN
              IF r.found
              THEN <<[kind |-> "cycle", ref |-> <<>>]>>
              ELSE CycleIssues(graph, all_task_ids, i + 1, r.visited, r.rec_stack)

SeqToSet(seq) == {seq[i] : i \in 1..Len(seq)}

\* the loop reporting references to non-existent tasks
RECURSIVE ReferenceIssues(_, _)
ReferenceIssues(edges, task_id_set) ==
    IF edges = <<>> THEN <<>>
    ELSE (IF Head(edges).from_task \notin task_id_set
          THEN <<[kind |-> "unknown_source", ref |-> <<Head(edges).from_task>>]>>
          ELSE <<>>)
         \o (IF Head(edges).to_task \notin task_id_set
             THEN <<[kind |-> "unknown_target", ref |-> <<Head(edges).to_task>>]>>
             ELSE <<>>)
         \o ReferenceIssues(Tail(edges), task_id_set)

\* the tasks no edge names, reported in one message
IsolatedIssues(edges, all_task_ids) ==
    LET constrained_tasks ==
            {edges[i].from_task : i \in 1..Len(edges)}
                \cup {edges[i].to_task : i \in 1..Len(edges)}
        isolated_tasks ==
            SelectSeq(all_task_ids, LAMBDA t : t \notin constrained_tasks)
    IN IF isolated_tasks # <<>>
       THEN <<[kind |-> "isolated", ref |-> isolated_tasks]>>
       ELSE <<>>

validate_constraints(edges, all_task_ids) ==
    ReferenceIssues(edges, SeqToSet(all_task_ids))
        \o CycleIssues(build_dependency_graph(edges), all_task_ids, 1, {}, {})
        \o IsolatedIssues(edges, all_task_ids)

-----------------------------------------------------------------------------
(* DataFlowParser *)

\* _map_component_type: the mapping table; "" is None
_map_component_type(class_id) ==
    CASE class_id = "Microsoft.OLEDBSource" -> "OLEDBSource"
      [] class_id = "Microsoft.ADONETSource" -> "ADONETSource"
      [] class_id = "Microsoft.FlatFileSource" -> "FlatFileSource"
      [] class_id = "Microsoft.ScriptSource" -> "ScriptSource"
      [] class_id = "Microsoft.OLEDBDestination" -> "OLEDBDestination"
      [] class_id = "Microsoft.ADONETDestination" -> "ADONETDestination"
      [] class_id = "Microsoft.FlatFileDestination" -> "FlatFileDestination"
      [] class_id = "Microsoft.DerivedColumn" -> "DerivedColumn"
      [] class_id = "Microsoft.Lookup" -> "Lookup"
      [] class_id = "Microsoft.ConditionalSplit" -> "ConditionalSplit"
      [] class_id = "Microsoft.UnionAll" -> "UnionAll"
      [] class_id = "Microsoft.Sort" -> "Sort"
      [] class_id = "Microsoft.Aggregate" -> "Aggregate"
      [] class_id = "Microsoft.MergeJoin" -> "MergeJoin"
      [] class_id = "Microsoft.Multicast" -> "Multicast"
      [] class_id = "Microsoft.RowCount" -> "RowCount"
      [] class_id = "Microsoft.ScriptComponent" -> "ScriptComponent"
      [] class_id = "DTSTransform.OLEDBSource" -> "OLEDBSource"
      [] class_id = "DTSTransform.OLEDBDestination" -> "OLEDBDestination"
      [] class_id = "DTSTransform.DerivedColumn" -> "DerivedColumn"
      [] class_id = "DTSTransform.Lookup" -> "Lookup"
      [] OTHER -> ""

\* The fields of DataFlowComponent declared without a default: under
\* pydantic 2 `ref: Optional[str] = Field(description=...)` is a required
\* field that accepts None, and so is `mode`
DataFlowComponentRequired ==
    {"id", "component_type", "name", "ref", "mode"}

NoComponent == [id |-> ""]

\* DataFlowComponent(**kwargs): the validated model, or ValidationError
\* when a required field is not given
DataFlowComponent(kwargs) ==
    IF DataFlowComponentRequired \subseteq DOMAIN kwargs
    THEN [raised |-> "",
          value |-> [id |-> kwargs.id,
                     component_type |-> kwargs.component_type,
                     name |-> kwargs.name,
                     inputs |-> <<>>, outputs |-> <<>>]]
    ELSE [raised |-> "ValidationError", value |-> NoComponent]

\* _parse_single_component: None (NoComponent) for an element that lacks an
\* attribute or has an unmapped class; the id map grows after construction
_parse_single_component(comp_elem, id_map) ==
    IF comp_elem.id = "" \/ comp_elem.name = ""
       \/ comp_elem.componentClassID = ""
    THEN [raised |-> "", value |-> NoComponent, id_map |-> id_map]
    ELSE IF _map_component_type(comp_elem.componentClassID) = ""
    THEN [raised |-> "", value |-> NoComponent, id_map |-> id_map]
    ELSE LET c == DataFlowComponent(
                     [id |-> comp_elem.id,
                      component_type |->
                          _map_component_type(comp_elem.componentClassID),
                      name |-> comp_elem.name]) IN
         IF c.raised # ""
         THEN [raised |-> c.raised, value |-> NoComponent, id_map |-> id_map]
         ELSE [raised |-> "", value |-> c.value,
               id_map |-> Put(id_map, comp_elem.id, comp_elem.name)]

\* _parse_components: the retained components in document order; an
\* exception ends the loop
RECURSIVE _parse_components(_, _)
_parse_components(comp_elements, id_map) ==
    IF comp_elements = <<>>
    THEN [raised |-> "", components |-> <<>>, id_map |-> id_map]
    ELSE LET r == _parse_single_component(Head(comp_elements), id_map) IN
         IF r.raised # ""
         THEN [raised |-> r.raised, components |-> <<>>, id_map |-> r.id_map]
         ELSE LET rest == _parse_components(Tail(comp_elements), r.id_map) IN
              IF rest.raised # "" THEN rest
              ELSE [raised |-> "",
                    components |->
                        (IF r.value = NoComponent THEN <<>> ELSE <<r.value>>)
                            \o rest.components,
                    id_map |-> rest.id_map]

\* _parse_paths: every path with startId and endId is appended to
\* self.path_connections
RECURSIVE _parse_paths(_, _)
_parse_paths(path_elements, connections) ==
    IF path_elements = <<>> THEN connections
    ELSE LET path_elem == Head(path_elements) IN
         _parse_paths(Tail(path_elements),
            IF path_elem.startId # "" /\ path_elem.endId # ""
            THEN Append(connections,
                        [start |-> path_elem.startId, end |-> path_elem.endId,
                         path_id |-> path_elem.id])
            ELSE connections)

\* comp_by_id = {comp.id: comp for comp in components}: the position of the
\* last component carrying the id, 0 when there is none
comp_by_id(components, id) ==
    LET S == {i \in 1..Len(components) : components[i].id = id} IN
    IF S = {} THEN 0 ELSE CHOOSE i \in S : \A j \in S : j <= i

AppendAlways(list, x) == Append(list, x)

\* if x not in list: list.append(x)
AppendNew(list, x) ==
    IF \E i \in 1..Len(list) : list[i] = x THEN list ELSE Append(list, x)

RECURSIVE _wire_components_either_end(_, _)
_wire_components_either_end(components, connections) ==
    IF connections = <<>> THEN components
    ELSE LET path == Head(connections)
             s == comp_by_id(components, path.start)
             e == comp_by_id(components, path.end)
             wired_out == IF s # 0
                          THEN [components EXCEPT ![s].outputs =
                                   AppendNew(@, path.path_id)]
                          ELSE components
             wired == IF e # 0
                      THEN [wired_out EXCEPT ![e].inputs =
                               AppendNew(@, path.path_id)]
                      ELSE wired_out
         IN _wire_components_either_end(wired, Tail(connections))

\* _wire_components: the loop over self.path_connections
RECURSIVE _wire_components(_, _)
_wire_components(components, connections) ==
    IF connections = <<>> THEN components
    ELSE LET path == Head(connections)
             s == comp_by_id(components, path.start)
             e == comp_by_id(components, path.end)
             wired_out == IF s # 0 /\ e # 0
                          THEN [components EXCEPT ![s].outputs =
                                   AppendNew(@, path.path_id)]
                          ELSE components
             wired == IF s # 0 /\ e # 0
                      THEN [wired_out EXCEPT ![e].inputs =
                               AppendNew(@, path.path_id)]
                      ELSE wired_out
         IN _wire_components(wired, Tail(connections))

\* A Pipeline:component element: id, name and componentClassID ("" when the
\* attribute is missing)
ComponentElems ==
    {[id |-> i, name |-> "n", componentClassID |-> "Microsoft.OLEDBSource"]
        : i \in {"c1", "c2"}}
        \cup {[id |-> "c1", name |-> "n", componentClassID |-> "Vendor.Custom"],
              [id |-> "", name |-> "n",
               componentClassID |-> "Microsoft.OLEDBSource"]}

\* A Pipeline:path element: id, startId and endId
PathElems ==
    {[id |-> "p1", startId |-> "c1", endId |-> "c2"],
     [id |-> "p2", startId |-> "c1", endId |-> "c2"],
     [id |-> "p1", startId |-> "c2", endId |-> "c1"],
     [id |-> "p1", startId |-> "c1", endId |-> ""]}

\* ObjectData elements holding a Pipeline with kc components and kp paths
PipelinesWith(kc, kp) ==
    {[has_pipeline |-> TRUE, components |-> cs, paths |-> ps]
        : cs \in [1..kc -> ComponentElems], ps \in [1..kp -> PathElems]}

\* an ObjectData element without a Pipeline child
NoPipeline == [has_pipeline |-> FALSE, components |-> <<>>, paths |-> <<>>]

\* Lists of at most n ObjectData elements holding at most c components and
\* at most p paths
RECURSIVE PipelineLists(_, _, _)
PipelineLists(n, c, p) ==
    IF n = 0 THEN {<<>>}
    ELSE {<<>>}
         \cup {<<NoPipeline>> \o rest : rest \in PipelineLists(n - 1, c, p)}
         \cup UNION {LET rests == PipelineLists(n - 1, c - kc, p - kp) IN
                        {<<pl>> \o rest : pl \in PipelinesWith(kc, kp),
                                          rest \in rests}
                        : kc \in 0..c, kp \in 0..p}

\* parse_dataflow(obj_data, executable) on a parser whose fields hold id_map
\* and connections: what it raised, the list assigned to
\* executable.components (the executable keeps its empty list when the
\* ObjectData has no Pipeline or the call raises), and the fields afterwards
parse_dataflow_result(obj_data, id_map, connections) ==
    IF ~obj_data.has_pipeline
    THEN [raised |-> "", components |-> <<>>,
          id_map |-> id_map, connections |-> connections]
    ELSE LET parsed == _parse_components(obj_data.components, id_map)
             paths == _parse_paths(obj_data.paths, connections)
         IN IF parsed.raised # ""
            THEN [raised |-> parsed.raised, components |-> <<>>,
                  id_map |-> parsed.id_map, connections |-> connections]
            ELSE [raised |-> "",
                  components |-> _wire_components(parsed.components, paths),
                  id_map |-> parsed.id_map, connections |-> paths]

-----------------------------------------------------------------------------
(* DTSXToIRConverter.convert_file *)

NoPackage == [package_name |-> ""]

\* IRPackage(package_name=...): every other field at its default
MinimalPackage(name) ==
    [package_name |-> name,
     protection_level |-> "DontSaveSensitive",
     connection_managers |-> <<>>,
     executables |-> <<>>,
     edges |-> <<>>]

\* MigrationReport(...) as built before the try block
InitialReport ==
    [success |-> TRUE, errors |-> <<>>, warnings |-> <<>>,
     total_executables |-> 0, supported_executables |-> 0,
     unsupported_executables |-> <<>>]

\* DataFlowParser(reader.namespaces): both fields empty. The name
\* dataflow_parser is not bound before that line.
NewDataFlowParser == [component_id_map |-> EmptyDict, path_connections |-> <<>>]

NoParser == NewDataFlowParser

\* The loop over the executables from position i on, on the parser given:
\* an executable is handed to parse_dataflow when str() of its type is
\* "DataFlow" and its element has a DTS:ObjectData child; an exception ends
\* the loop
RECURSIVE ParseDataFlowLoop(_, _, _, _)
ParseDataFlowLoop(executables, d, i, parser) ==
    IF i > Len(executables)
    THEN [raised |-> "", executables |-> executables, parser |-> parser]
    ELSE LET executable == executables[i]
             obj_data == d.object_data[executable.id]
         IN IF str_type(executable.type) = "DataFlow" /\ obj_data # NoObjectData
            THEN LET r == parse_dataflow_result(obj_data,
                              parser.component_id_map, parser.path_connections)
                     after == [component_id_map |-> r.id_map,
                               path_connections |-> r.connections]
                 IN IF r.raised # ""
                    THEN [raised |-> r.raised, executables |-> executables,
                          parser |-> after]
                    ELSE ParseDataFlowLoop(
                            IF obj_data.has_pipeline
                            THEN [executables EXCEPT ![i].components = r.components]
                            ELSE executables,
                            d, i + 1, after)
            ELSE ParseDataFlowLoop(executables, d, i + 1, parser)

InitialLocals ==
    [metadata |-> [package_name |-> "", protection_level |-> ""],
     connection_managers |-> <<>>,
     executables |-> <<>>,
     edges |-> <<>>,
     dataflow_parser |-> NoParser,
     ir_package |-> NoPackage,
     report |-> InitialReport]

NoResult == [package |-> NoPackage, report |-> InitialReport]

\* The security loop over the connection managers: stops at the first
\* exception
RECURSIVE SecureConnections(_, _, _)
SecureConnections(pw, level, cms) ==
    IF cms = <<>> THEN [raised |-> "", value |-> <<>>]
    ELSE LET r == handle_protection_level(pw, level, Head(cms).properties) IN
         IF r.raised # "" THEN [raised |-> r.raised, value |-> <<>>]
         ELSE LET rest == SecureConnections(pw, level, Tail(cms)) IN
              IF rest.raised # "" THEN rest
              ELSE [raised |-> "",
                    value |-> <<[id |-> Head(cms).id, properties |-> r.value]>>
                                \o rest.value]

\* The package the except block returns
ExceptPackagePartial(l) ==
    IF l.ir_package # NoPackage THEN l.ir_package ELSE MinimalPackage(Stem)

ExceptPackage(l) == MinimalPackage(Stem)

\* except Exception as e: ... return minimal_package, report
Except(msg) ==
    /\ result' = [package |-> ExceptPackage(locals),
                  report |-> [locals.report EXCEPT
                                 !.success = FALSE,
                                 !.errors = Append(@, msg)]]
    /\ raised' = msg
    /\ locals' = InitialLocals
    /\ pc' = "returned"
    /\ UNCHANGED <<doc, password, reader_cms>>

\* An exception raised below convert_file by a step of the try block
Fault == "Exception"

ConvInit ==
    /\ doc \in Docs
    /\ password \in Passwords
    /\ pc = "load"
    /\ locals = InitialLocals
    /\ reader_cms = <<>>
    /\ raised = ""
    /\ result = NoResult

\* Documents of at most n data-flow tasks, each with its ObjectData, holding
\* at most c components and at most p paths
FlowDocs(n, c, p) ==
    {[root |-> "DTS:Executable", protection |-> "DontSaveSensitive",
      cms |-> <<>>, exes |-> [i \in DOMAIN pls |-> "Microsoft.Pipeline"],
      object_data |-> pls, edges |-> <<>>]
        : pls \in PipelineLists(n, c, p)}

\* convert_file called on a document with data-flow tasks
ConvInitFlows ==
    /\ doc \in FlowDocs(MaxFlows, MaxFlowComps, MaxPaths)
    /\ password = NoPassword
    /\ pc = "load"
    /\ locals = InitialLocals
    /\ reader_cms = <<>>
    /\ raised = ""
    /\ result = NoResult

\* convert_file called on a document with precedence constraints
ConvInitEdges ==
    /\ doc \in EdgeDocs
    /\ password = NoPassword
    /\ pc = "load"
    /\ locals = InitialLocals
    /\ reader_cms = <<>>
    /\ raised = ""
    /\ result = NoResult

\* reader.load()
Load ==
    /\ pc = "load"
    /\ \/ /\ doc.root = "DTS:Executable"
          /\ pc' = "extract"
          /\ UNCHANGED <<doc, password, locals, reader_cms, raised, result>>
       \/ /\ doc.root # "DTS:Executable"
          /\ Except("Failed to load DTSX file")
    /\ UNCHANGED convFrame

\* metadata, connection managers and executables are read
Extract ==
    /\ pc = "extract"
    /\ \/ /\ RootHasChildren(doc)
          /\ locals' = [locals EXCEPT
                           !.metadata = get_package_metadata(doc),
                           !.connection_managers = get_connection_managers(doc),
                           !.executables = get_executables(doc),
                           !.edges = parse_precedence_constraints(doc.edges)]
          /\ reader_cms' = get_connection_managers(doc)
          /\ pc' = "dataflow"
          /\ UNCHANGED <<doc, password, raised, result>>
       \/ /\ ~RootHasChildren(doc)
          /\ Except("DTSX file not loaded")
       \/ Except(Fault)
    /\ UNCHANGED convFrame

\* dataflow_parser = DataFlowParser(...) and the loop over the executables
ParseDataFlows ==
    /\ pc = "dataflow"
    /\ LET r == ParseDataFlowLoop(locals.executables, doc, 1, NewDataFlowParser) IN
       \/ /\ r.raised = ""
          /\ locals' = [locals EXCEPT !.executables = r.executables,
                                      !.dataflow_parser = r.parser]
          /\ pc' = "secure"
          /\ UNCHANGED <<doc, password, reader_cms, raised, result>>
       \/ /\ r.raised # ""
          /\ Except(r.raised)
       \/ Except(Fault)
    /\ UNCHANGED convFrame

\* the loop that secures every connection manager
Secure ==
    /\ pc = "secure"
    /\ LET r == SecureConnections(password, locals.metadata.protection_level,
                                  locals.connection_managers) IN
       \/ /\ r.raised = ""
          /\ locals' = [locals EXCEPT !.connection_managers = r.value]
          /\ pc' = "assemble"
          /\ UNCHANGED <<doc, password, reader_cms, raised, result>>
       \/ /\ r.raised # ""
          /\ Except(r.raised)
    /\ UNCHANGED convFrame

\* ir_package = IRPackage(...)
Assemble ==
    /\ pc = "assemble"
    /\ \/ /\ locals' = [locals EXCEPT !.ir_package =
                [package_name |-> locals.metadata.package_name,
                 protection_level |-> locals.metadata.protection_level,
                 connection_managers |-> locals.connection_managers,
                 executables |-> locals.executables,
                 edges |-> locals.edges]]
          /\ pc' = "validate"
          /\ UNCHANGED <<doc, password, reader_cms, raised, result>>
       \/ Except(Fault)
    /\ UNCHANGED convFrame

\* [exe.id for exe in executables]
TaskIds(executables) == [i \in 1..Len(executables) |-> executables[i].id]

\* The report after the counts are set: every executable read has a type, so
\* all count as supported, and none has a type whose str() is "Unknown"
CountedReport(l) ==
    [l.report EXCEPT
        !.total_executables = Len(l.executables),
        !.supported_executables =
            Len(SelectSeq(l.executables, LAMBDA exe : exe.type # "")),
        !.unsupported_executables =
            TaskIds(SelectSeq(l.executables,
                LAMBDA exe : exe.type = "" \/ str_type(exe.type) = "Unknown"))]

FilledReportUnvalidated(l) ==
    [CountedReport(l) EXCEPT
        !.warnings = @ \o validate_security_compliance(l.ir_package),
        !.success = TRUE]

\* The report returned: the security warnings, then the constraint issues
FilledReport(l) ==
    [CountedReport(l) EXCEPT
        !.warnings = @ \o validate_security_compliance(l.ir_package)
                       \o validate_constraints(l.edges, TaskIds(l.executables)),
        !.success = TRUE]

\* the report is filled in, the constraints are validated, the pair returned
Validate ==
    /\ pc = "validate"
    /\ \/ /\ result' = [package |-> locals.ir_package,
                        report |-> FilledReport(locals)]
          /\ locals' = InitialLocals
          /\ pc' = "returned"
          /\ UNCHANGED <<doc, password, reader_cms, raised>>
       \/ /\ locals' = [locals EXCEPT !.report = CountedReport(locals)]
          /\ pc' = "validate_failed"
          /\ UNCHANGED <<doc, password, reader_cms, raised, result>>
    /\ UNCHANGED convFrame

\* validate_constraints (or a later statement of the try block) raised
ValidateFailed ==
    /\ pc = "validate_failed"
    /\ Except(Fault)
    /\ UNCHANGED convFrame

ConvNext ==
    \/ Load
    \/ Extract
    \/ ParseDataFlows
    \/ Secure
    \/ Assemble
    \/ Validate
    \/ ValidateFailed

ConvIdle ==
    /\ doc = InvalidDoc
    /\ password = NoPassword
    /\ pc = "idle"
    /\ locals = InitialLocals
    /\ reader_cms = <<>>
    /\ raised = ""
    /\ result = NoResult

-----------------------------------------------------------------------------
(* convert_file, called again on the same DTSXToIRConverter *)

\* The documents one converter is run on, one after another: no root, a root
\* without children, a connection manager with a password property, an
\* ExecuteSQL task, and a data flow with one component
RepeatDocs ==
    {InvalidDoc}
    \cup {[root |-> "DTS:Executable", protection |-> pl, cms |-> cl, exes |-> el,
           object_data |-> [i \in DOMAIN el |-> NoObjectData], edges |-> <<>>]
            : pl \in {"EncryptSensitiveWithPassword"},
              cl \in {<<>>, <<[has_ids |-> TRUE,
                               props |-> <<[name |-> "Password", text |-> "raw"]>>]>>},
              el \in {<<>>, <<"Microsoft.ExecuteSQLTask">>}}
    \cup {[root |-> "DTS:Executable", protection |-> "DontSaveSensitive",
           cms |-> <<>>, exes |-> <<"Microsoft.Pipeline">>,
           object_data |-> <<[has_pipeline |-> TRUE,
                              components |-> <<[name |-> "n", id |-> "c1",
                                                componentClassID |-> "Microsoft.OLEDBSource"]>>,
                              paths |-> <<>>]>>,
           edges |-> <<>>]}

\* DTSXToIRConverter(password), then its first call of convert_file
ConvInitRepeat ==
    /\ doc \in RepeatDocs
    /\ password \in Passwords
    /\ pc = "load"
    /\ locals = InitialLocals
    /\ reader_cms = <<>>
    /\ raised = ""
    /\ result = NoResult

\* A converter that has not returned from a call
HistIdle == calls = <<>>

\* The caller keeps the pair returned and calls convert_file again, on any
\* document: self.password is the only field of the converter the call
\* reads, and the report, the reader and the parsers are new objects
ConvertFileAgain ==
    /\ pc = "returned"
    /\ Len(calls) < MaxCalls
    /\ calls' = Append(calls, [doc |-> doc, raised |-> raised,
                               package |-> result.package])
    /\ doc' \in RepeatDocs
    /\ pc' = "load"
    /\ locals' = InitialLocals
    /\ reader_cms' = <<>>
    /\ raised' = ""
    /\ result' = NoResult
    /\ UNCHANGED password
    /\ UNCHANGED repeatFrame

-----------------------------------------------------------------------------
(* PrecedenceParser.validate_constraints, called on its own *)

EdgeRecords ==
    {[from_task |-> f, to_task |-> t] : f \in 1..MaxIds, t \in 1..MaxIds}

EdgeLists == UNION {[1..k -> EdgeRecords] : k \in 0..MaxEdges}

\* the ids of the package's executables: 1..n, the other ids are unknown
TaskLists == {[i \in 1..n |-> i] : n \in 0..MaxIds}

ValInit ==
    /\ v_edges \in EdgeLists
    /\ v_task_ids \in TaskLists
    /\ v_issues = <<>>
    /\ v_roots = <<>>
    /\ v_pc = "call"

ValIdle ==
    /\ v_edges = <<>>
    /\ v_task_ids = <<>>
    /\ v_issues = <<>>
    /\ v_roots = <<>>
    /\ v_pc = "idle"

ValidateConstraints ==
    /\ v_pc = "call"
    /\ v_issues' = validate_constraints(v_edges, v_task_ids)
    /\ v_pc' = "done"
    /\ UNCHANGED <<v_edges, v_task_ids, v_roots>>
    /\ UNCHANGED valFrame

\* get_root_tasks(edges, all_task_ids), on the same inputs
GetRootTasks ==
    /\ v_pc = "done"
    /\ v_roots' = get_root_tasks(v_edges, v_task_ids)
    /\ v_pc' = "rooted"
    /\ UNCHANGED <<v_edges, v_task_ids, v_issues>>
    /\ UNCHANGED valFrame

ValNext ==
    \/ ValidateConstraints
    \/ GetRootTasks

-----------------------------------------------------------------------------
(* SSISProjectParser.analyze_project_structure *)

\* Package names are the numbers 1..MaxPkgs. A project has the packages
\* 1..n; a dependency may name as child a number that is no package of it.
PackageLists == {[i \in 1..n |-> i] : n \in 0..MaxPkgs}

DepRecords(pkgs) ==
    {[parent_package |-> a, child_package |-> b] :
        a \in SeqToSet(pkgs), b \in 1..MaxPkgs}

\* parse_project collects the dependencies package by package, so the
\* parents follow the package order
DepLists(pkgs) ==
    UNION {{ds \in [1..k -> DepRecords(pkgs)] :
                \A i \in 1..(k - 1) :
                    ds[i].parent_package <= ds[i + 1].parent_package}
              : k \in 0..MaxDeps}

\* the recursion depth at which Python raises RecursionError
RecursionLimit == MaxPkgs + 2

\* dependency_graph: package -> children, in dependency order
RECURSIVE BuildGraph(_, _)
BuildGraph(pkgs, deps) ==
    IF deps = <<>> THEN [n \in SeqToSet(pkgs) |-> <<>>]
    ELSE LET graph == BuildGraph(pkgs, SubSeq(deps, 1, Len(deps) - 1))
             dep == deps[Len(deps)]
         IN IF dep.parent_package \in DOMAIN graph
            THEN [graph EXCEPT ![dep.parent_package] = Append(@, dep.child_package)]
            ELSE graph

executed_packages(deps) == {deps[i].child_package : i \in 1..Len(deps)}

\* [pkg.name for pkg in project.packages if pkg.name not in executed_packages]
RECURSIVE EntryPoints(_, _)
EntryPoints(pkgs, executed) ==
    IF pkgs = <<>> THEN <<>>
    ELSE (IF Head(pkgs) \notin executed THEN <<Head(pkgs)>> ELSE <<>>)
         \o EntryPoints(Tail(pkgs), executed)

IsIsolatedIncomingOnly(graph, executed, pkg_name) ==
    pkg_name \notin executed

\* not has_incoming and not has_outgoing
IsIsolated(graph, executed, pkg_name) ==
    /\ pkg_name \notin executed
    /\ ~(Len(graph[pkg_name]) > 0)

\* the loop over dependency_graph, whose keys are in package order
RECURSIVE Isolated(_, _, _)
Isolated(pkgs, graph, executed) ==
    IF pkgs = <<>> THEN <<>>
    ELSE (IF IsIsolated(graph, executed, Head(pkgs)) THEN <<Head(pkgs)>> ELSE <<>>)
         \o Isolated(Tail(pkgs), graph, executed)

EmptyAnalysis ==
    [entry_points |-> <<>>, execution_chains |-> <<>>, isolated_packages |-> <<>>]

\* A call of _trace_execution_chain: its arguments, its chain, and the
\* child it is at (0 before the visited test)
Frame(start_package, visited) ==
    [start_package |-> start_package, visited |-> visited,
     chain |-> <<>>, i |-> 0]

Top == p_stack[Len(p_stack)]
Callers == SubSeq(p_stack, 1, Len(p_stack) - 1)

RevisitedNever(frame) == FALSE

\* if start_package in visited
Revisited(frame) == frame.start_package \in frame.visited

IncludeChainAlways(chain) == Len(chain) >= 1

\* if len(chain) > 1
IncludeChain(chain) == Len(chain) > 1

\* chain.extend(child_chain) when child_chain is not empty
ExtendWith(chain, child_chain) ==
    IF child_chain # <<>> THEN chain \o child_chain ELSE chain

\* A call returns child_chain: to the calling frame, which goes on with its
\* next child, or to analyze_project_structure, which records the chain and
\* goes on with its next entry point
ReturnChain(child_chain) ==
    IF Len(p_stack) > 1
    THEN /\ p_stack' = [Callers EXCEPT ![Len(Callers)] =
                            [@ EXCEPT !.chain = ExtendWith(@, child_chain),
                                      !.i = @ + 1]]
         /\ UNCHANGED <<p_analysis, p_ep>>
    ELSE /\ p_stack' = <<>>
         /\ p_analysis' =
                IF IncludeChain(child_chain)
                THEN [p_analysis EXCEPT !.execution_chains =
                        Append(@, [entry_point |-> p_analysis.entry_points[p_ep],
                                   chain |-> child_chain,
                                   length |-> Len(child_chain)])]
                ELSE p_analysis
         /\ p_ep' = p_ep + 1

ProjInit ==
    /\ p_packages \in PackageLists
    /\ p_deps \in DepLists(p_packages)
    /\ p_pc = "start"
    /\ p_graph = EmptyDict
    /\ p_analysis = EmptyAnalysis
    /\ p_ep = 0
    /\ p_stack = <<>>

ProjIdle ==
    /\ p_packages = <<>>
    /\ p_deps = <<>>
    /\ p_pc = "idle"
    /\ p_graph = EmptyDict
    /\ p_analysis = EmptyAnalysis
    /\ p_ep = 0
    /\ p_stack = <<>>

\* the graph, the entry points and the isolated packages are computed
AnalyzeStart ==
    /\ p_pc = "start"
    /\ p_graph' = BuildGraph(p_packages, p_deps)
    /\ p_analysis' =
          [entry_points |-> EntryPoints(p_packages, executed_packages(p_deps)),
           execution_chains |-> <<>>,
           isolated_packages |->
                Isolated(p_packages, BuildGraph(p_packages, p_deps),
                         executed_packages(p_deps))]
    /\ p_ep' = 1
    /\ p_pc' = "chains"
    /\ UNCHANGED <<p_packages, p_deps, p_stack>>
    /\ UNCHANGED projFrame

\* for entry_point in entry_points: self._trace_execution_chain(entry_point, ...)
TraceEntryPoint ==
    /\ p_pc = "chains"
    /\ p_stack = <<>>
    /\ p_ep <= Len(p_analysis.entry_points)
    /\ p_stack' = <<Frame(p_analysis.entry_points[p_ep], {})>>
    /\ UNCHANGED <<p_packages, p_deps, p_pc, p_graph, p_analysis, p_ep>>
    /\ UNCHANGED projFrame

\* the body of _trace_execution_chain up to the loop: a revisited package
\* returns [], any other is added to visited and starts the chain
TraceEnter ==
    /\ p_pc = "chains"
    /\ p_stack # <<>>
    /\ Top.i = 0
    /\ IF Revisited(Top)
       THEN ReturnChain(<<>>)
       ELSE /\ p_stack' = [p_stack EXCEPT ![Len(p_stack)] =
                    [@ EXCEPT !.visited = @ \cup {Top.start_package},
                              !.chain = <<Top.start_package>>,
                              !.i = 1]]
            /\ UNCHANGED <<p_analysis, p_ep>>
    /\ UNCHANGED <<p_packages, p_deps, p_pc, p_graph>>
    /\ UNCHANGED projFrame

\* the recursive call for the next child, with a copy of visited; beyond
\* the recursion limit the call raises RecursionError, which leaves
\* analyze_project_structure
TraceChild ==
    /\ p_pc = "chains"
    /\ p_stack # <<>>
    /\ Top.i >= 1
    /\ Top.i <= Len(GraphGet(p_graph, Top.start_package))
    /\ IF Len(p_stack) < RecursionLimit
       THEN /\ p_stack' = Append(p_stack,
                    Frame(GraphGet(p_graph, Top.start_package)[Top.i], Top.visited))
            /\ UNCHANGED p_pc
       ELSE /\ p_stack' = <<>>
            /\ p_pc' = "crashed"
    /\ UNCHANGED <<p_packages, p_deps, p_graph, p_analysis, p_ep>>
    /\ UNCHANGED projFrame

\* return chain, after the last child
TraceReturn ==
    /\ p_pc = "chains"
    /\ p_stack # <<>>
    /\ Top.i >= 1
    /\ Top.i > Len(GraphGet(p_graph, Top.start_package))
    /\ ReturnChain(Top.chain)
    /\ UNCHANGED <<p_packages, p_deps, p_pc, p_graph>>
    /\ UNCHANGED projFrame

\* return analysis, after the last entry point
AnalyzeFinish ==
    /\ p_pc = "chains"
    /\ p_stack = <<>>
    /\ p_ep > Len(p_analysis.entry_points)
    /\ p_pc' = "analyzed"
    /\ UNCHANGED <<p_packages, p_deps, p_graph, p_analysis, p_ep, p_stack>>
    /\ UNCHANGED projFrame

ProjNext ==
    \/ AnalyzeStart
    \/ TraceEntryPoint
    \/ TraceEnter
    \/ TraceChild
    \/ TraceReturn
    \/ AnalyzeFinish

-----------------------------------------------------------------------------
(* IRPackage.is_transformation_only *)

ExecutableType ==
    {"ExecuteSQL", "DataFlow", "ScriptTask", "SequenceContainer",
     "ForEachLoop", "ForLoop", "BulkInsert", "ExecutePackage", "FileSystem",
     "FTP", "SendMail", "WebService"}

\* the component types the classified packages are built from
ComponentTypes ==
    {"OLEDBSource", "FlatFileSource", "OLEDBDestination", "FlatFileDestination"}

ingestion_types_without_web_service == {"BulkInsert", "FileSystem", "FTP"}

ingestion_types == {"BulkInsert", "FileSystem", "FTP", "WebService"}

\* for comp in exe.components: if comp.component_type in {...}: return False
RECURSIVE HasFlatFileComponent(_)
HasFlatFileComponent(components) ==
    IF components = <<>> THEN FALSE
    ELSE IF Head(components) \in {"FlatFileSource", "FlatFileDestination"}
         THEN TRUE
         ELSE HasFlatFileComponent(Tail(components))

\* for exe in self.executables: ... return False; return True
RECURSIVE is_transformation_only(_)
is_transformation_only(executables) ==
    IF executables = <<>> THEN TRUE
    ELSE LET exe == Head(executables) IN
         IF exe.type \in ingestion_types THEN FALSE
         ELSE IF exe.type = "DataFlow" /\ HasFlatFileComponent(exe.components)
              THEN FALSE
              ELSE is_transformation_only(Tail(executables))

\* Executable.components is filled for data flows; a container carrying
\* components stands for every other type that is given some
ComponentBearingTypes == {"DataFlow", "SequenceContainer"}

\* Executables holding exactly k components
TaskRecords(k) ==
    {[type |-> t, components |-> cs] :
        t \in (IF k = 0 THEN ExecutableType ELSE ComponentBearingTypes),
        cs \in [1..k -> ComponentTypes]}

\* Lists of at most c executables holding at most n components
RECURSIVE ExecutableLists(_, _)
ExecutableLists(c, n) ==
    IF c = 0 THEN {<<>>}
    ELSE {<<>>} \cup
         UNION {LET rests == ExecutableLists(c - 1, n - k) IN
                    {<<exe>> \o rest : exe \in TaskRecords(k), rest \in rests}
                    : k \in 0..n}

TransInit ==
    /\ t_executables \in ExecutableLists(MaxExecutables, MaxComps)
    /\ t_result = FALSE
    /\ t_pc = "call"

TransIdle ==
    /\ t_executables = <<>>
    /\ t_result = FALSE
    /\ t_pc = "idle"

IsTransformationOnly ==
    /\ t_pc = "call"
    /\ t_result' = is_transformation_only(t_executables)
    /\ t_pc' = "done"
    /\ UNCHANGED t_executables
    /\ UNCHANGED transFrame

TransNext == IsTransformationOnly

-----------------------------------------------------------------------------
(* SSISProjectParser.parse_project *)

\* What the bytes of a .dtsx file can be: well-formed XML, text that is not
\* well-formed XML, or bytes that are not UTF-8 text
PackageDocKinds == {"wellformed", "malformed", "undecodable"}

\* Package files naming k packages in the PackageName property of
\* ExecutePackageTask executables (in a damaged file the text is still there)
PackageDocs(k) ==
    {[kind |-> kd, targets |-> ts] :
        kd \in PackageDocKinds, ts \in [1..k -> 1..MaxScanned]}

\* Projects of at most n package files naming at most d packages
RECURSIVE ProjectDocs(_, _)
ProjectDocs(n, d) ==
    IF n = 0 THEN {<<>>}
    ELSE {<<>>} \cup
         UNION {LET rests == ProjectDocs(n - 1, d - k) IN
                    {<<pd>> \o rest : pd \in PackageDocs(k), rest \in rests}
                    : k \in 0..d}

\* read_text(encoding='utf-8') / read(...).decode('utf-8')
read_text(package_doc) ==
    IF package_doc.kind = "undecodable"
    THEN [raised |-> "UnicodeDecodeError"]
    ELSE [raised |-> ""]

\* the dependencies appended for the PackageName properties found
RECURSIVE TargetDependencies(_, _)
TargetDependencies(package_name, targets) ==
    IF targets = <<>> THEN <<>>
    ELSE <<[parent_package |-> package_name, child_package |-> Head(targets)]>>
         \o TargetDependencies(package_name, Tail(targets))

\* _extract_package_dependencies: etree.fromstring raises XMLSyntaxError
\* before the loop, and the except clause returns the empty list
_extract_package_dependencies(package_name, package_doc) ==
    IF package_doc.kind = "wellformed"
    THEN TargetDependencies(package_name, package_doc.targets)
    ELSE <<>>

NoProject == [packages |-> <<>>, dependencies |-> <<>>]

ParseInit ==
    /\ pp_docs \in ProjectDocs(MaxScanned, MaxTargets)
    /\ pp_i = 1
    /\ pp_dependencies = <<>>
    /\ pp_pc = "scan"
    /\ pp_project = NoProject

\* the project on disk, before parse_project is called on it
ParseNotStarted ==
    /\ pp_docs \in ProjectDocs(MaxScanned, MaxTargets)
    /\ pp_i = 0
    /\ pp_dependencies = <<>>
    /\ pp_pc = "idle"
    /\ pp_project = NoProject

ParseIdle ==
    /\ pp_docs = <<>>
    /\ pp_i = 0
    /\ pp_dependencies = <<>>
    /\ pp_pc = "idle"
    /\ pp_project = NoProject

\* one round of `for package_ref in packages`: the file is read and its
\* dependencies are appended; an exception of the read leaves parse_project
ScanPackage ==
    /\ pp_pc = "scan"
    /\ pp_i <= Len(pp_docs)
    /\ IF read_text(pp_docs[pp_i]).raised # ""
       THEN /\ pp_pc' = "raised"
            /\ pp_dependencies' = <<>>
            /\ UNCHANGED pp_i
       ELSE /\ pp_dependencies' = pp_dependencies
                    \o _extract_package_dependencies(pp_i, pp_docs[pp_i])
            /\ pp_i' = pp_i + 1
            /\ UNCHANGED pp_pc
    /\ UNCHANGED <<pp_docs, pp_project>>
    /\ UNCHANGED parseFrame

\* return SSISProject(...)
ReturnProject ==
    /\ pp_pc = "scan"
    /\ pp_i > Len(pp_docs)
    /\ pp_project' = [packages |-> [i \in 1..Len(pp_docs) |-> i],
                      dependencies |-> pp_dependencies]
    /\ pp_pc' = "returned"
    /\ UNCHANGED <<pp_docs, pp_i, pp_dependencies>>
    /\ UNCHANGED parseFrame

ParseNext ==
    \/ ScanPackage
    \/ ReturnProject

-----------------------------------------------------------------------------
(* convert_project_to_ir: ProjectToIRConverter(...).convert_project(...) *)

\* the keyword parameters of DTSXToIRConverter.__init__
DTSXToIRConverter_parameters == {"password"}

\* DTSXToIRConverter(**kwargs): TypeError for a keyword that __init__ does
\* not declare
DTSXToIRConverter(kwargs) ==
    IF DOMAIN kwargs \subseteq DTSXToIRConverter_parameters
    THEN [raised |-> "", password |-> kwargs.password]
    ELSE [raised |-> "TypeError", password |-> NoPassword]

\* ProjectToIRConverter.__init__: the last object built is the package
\* converter
ProjectToIRConverter(pw, key) ==
    DTSXToIRConverter([password |-> pw, anthropic_key |-> key])

NoIRProject == [project_name |-> ""]

ConvertArgs == [password : Passwords, anthropic_key : {"None", "key"}]

CpInit ==
    /\ cp_args \in ConvertArgs
    /\ cp_pc = "call"
    /\ cp_raised = ""
    /\ ir_project = NoIRProject

CpIdle ==
    /\ cp_args = [password |-> NoPassword, anthropic_key |-> "None"]
    /\ cp_pc = "idle"
    /\ cp_raised = ""
    /\ ir_project = NoIRProject

\* converter = ProjectToIRConverter(password=..., anthropic_key=...);
\* return converter.convert_project(project_path): the constructor raises,
\* so convert_project is not entered
convert_project_to_ir ==
    /\ cp_pc = "call"
    /\ ProjectToIRConverter(cp_args.password, cp_args.anthropic_key).raised # ""
    /\ cp_raised' =
          ProjectToIRConverter(cp_args.password, cp_args.anthropic_key).raised
    /\ cp_pc' = "raised"
    /\ UNCHANGED <<cp_args, ir_project>>
    /\ UNCHANGED cpFrame

CpNext == convert_project_to_ir

-----------------------------------------------------------------------------
(* DataFlowParser, called on its own *)

\* DataFlowParser(namespaces), and the calls that will be made on it
DfInit ==
    /\ component_id_map = EmptyDict
    /\ path_connections = <<>>
    /\ df_pipelines \in PipelineLists(MaxFlows, MaxFlowComps, MaxPaths)
    /\ df_results = <<>>

DfIdle ==
    /\ component_id_map = EmptyDict
    /\ path_connections = <<>>
    /\ df_pipelines = <<>>
    /\ df_results = <<>>

\* parse_dataflow(obj_data, executable), the next call on the parser
parse_dataflow ==
    /\ Len(df_results) < Len(df_pipelines)
    /\ LET r == parse_dataflow_result(df_pipelines[Len(df_results) + 1],
                                      component_id_map, path_connections)
       IN /\ df_results' = Append(df_results,
                                  [raised |-> r.raised,
                                   components |-> r.components])
          /\ component_id_map' = r.id_map
          /\ path_connections' = r.connections
    /\ UNCHANGED df_pipelines
    /\ UNCHANGED dfFrame

DfNext == parse_dataflow

-----------------------------------------------------------------------------
(* ir_to_json, ir_from_json and json_to_ir_package *)

\* Python values held by the fields of the models: None, a str, a bool, or a
\* member of one of the enumerations (its class and its value)
PyNone == [py |-> "None", cls |-> "", v |-> ""]
PyStr(s) == [py |-> "str", cls |-> "", v |-> s]
PyBool(b) == [py |-> "bool", cls |-> "", v |-> b]
PyMember(cls, value) == [py |-> "enum", cls |-> cls, v |-> value]

\* the outcome of validating a value its declared type does not admit
Invalid == [py |-> "ValidationError", cls |-> "", v |-> ""]

\* JSON scalars
JNull == [js |-> "null", v |-> ""]
JString(s) == [js |-> "string", v |-> s]
JBool(b) == [js |-> "bool", v |-> b]

\* The values of the enumerations
EnumValues(cls) ==
    CASE cls = "ProtectionLevel" -> ProtectionLevel
      [] cls = "ExecutableType" ->
            {"ExecuteSQL", "DataFlow", "ScriptTask", "SequenceContainer",
             "ForEachLoop", "ForLoop", "BulkInsert", "ExecutePackage",
             "FileSystem", "FTP", "SendMail", "WebService"}
      [] cls = "ComponentType" ->
            {"OLEDBSource", "ADONETSource", "FlatFileSource", "ScriptSource",
             "OLEDBDestination", "ADONETDestination", "FlatFileDestination",
             "SnowflakeDest", "DerivedColumn", "Lookup", "ConditionalSplit",
             "UnionAll", "Sort", "Aggregate", "MergeJoin", "Multicast",
             "RowCount", "ScriptComponent"}
      [] cls = "PrecedenceCondition" ->
            {"Success", "Failure", "Completion", "Expression"}
      [] cls = "SqlDialect" -> {"tsql", "ansi", "snowflake"}
      [] cls = "ConnectionType" ->
            {"OLEDB", "ADO.NET", "FLATFILE", "SNOWFLAKE", "FILE", "HTTP",
             "FTP", "SMTP"}
      [] OTHER -> {}

\* The declared type of each scalar field: k is "str", "optional_str",
\* "bool", "any", "enum" (the member is kept) or "enum_value" (IRPackage's
\* use_enum_values: the member's value is kept)
FieldType(model, field) ==
    CASE model = "IRPackage" /\ field = "protection_level" ->
            [k |-> "enum_value", cls |-> "ProtectionLevel"]
      [] model = "IRPackage" /\ field = "version_build" ->
            [k |-> "optional_str", cls |-> ""]
      [] model = "ConnectionManager" /\ field = "type" ->
            [k |-> "enum", cls |-> "ConnectionType"]
      [] model = "DataFlowComponent" /\ field = "component_type" ->
            [k |-> "enum", cls |-> "ComponentType"]
      [] model = "DataFlowComponent" /\ field \in {"ref", "mode"} ->
            [k |-> "optional_str", cls |-> ""]
      [] model = "Executable" /\ field = "type" ->
            [k |-> "enum", cls |-> "ExecutableType"]
      [] model = "Executable" /\ field = "dialect" ->
            [k |-> "optional_enum", cls |-> "SqlDialect"]
      [] model = "PrecedenceEdge" /\ field = "condition" ->
            [k |-> "enum", cls |-> "PrecedenceCondition"]
      [] model = "PrecedenceEdge" /\ field = "expression" ->
            [k |-> "optional_str", cls |-> ""]
      [] model = "PrecedenceEdge" /\ field = "logical_and" ->
            [k |-> "bool", cls |-> ""]
      [] model \in {"Parameter", "Variable"} /\ field = "value" ->
            [k |-> "any", cls |-> ""]
      [] OTHER -> [k |-> "str", cls |-> ""]

\* model_dump_json on a scalar: None is null, a member of an enumeration is
\* written as its value
to_json_value_by_name(x) ==
    CASE x.py = "None" -> JNull
      [] x.py = "bool" -> JBool(x.v)
      [] x.py = "enum" -> JString(x.cls \o "." \o x.v)
      [] OTHER -> JString(x.v)

to_json_value(x) ==
    CASE x.py = "None" -> JNull
      [] x.py = "bool" -> JBool(x.v)
      [] OTHER -> JString(x.v)

\* model_validate on a scalar of the declared type
validate_value(type, j) ==
    CASE type.k = "str" ->
            IF j.js = "string" THEN PyStr(j.v) ELSE Invalid
      [] type.k = "optional_str" ->
            IF j.js = "null" THEN PyNone
            ELSE IF j.js = "string" THEN PyStr(j.v) ELSE Invalid
      [] type.k = "bool" ->
            IF j.js = "bool" THEN PyBool(j.v) ELSE Invalid
      [] type.k = "enum" ->
            IF j.js = "string" /\ j.v \in EnumValues(type.cls)
            THEN PyMember(type.cls, j.v) ELSE Invalid
      [] type.k = "optional_enum" ->
            IF j.js = "null" THEN PyNone
            ELSE IF j.js = "string" /\ j.v \in EnumValues(type.cls)
                 THEN PyMember(type.cls, j.v) ELSE Invalid
      [] type.k = "enum_value" ->
            IF j.js = "string" /\ j.v \in EnumValues(type.cls)
            THEN PyStr(j.v) ELSE Invalid
      [] OTHER ->
            IF j.js = "null" THEN PyNone
            ELSE IF j.js = "bool" THEN PyBool(j.v) ELSE PyStr(j.v)

\* The fields of a model that hold lists of models, lists of strings or a
\* property map; every other field is a scalar
ListFields ==
    [parameters |-> "Parameter", variables |-> "Variable",
     connection_managers |-> "ConnectionManager",
     executables |-> "Executable", components |-> "DataFlowComponent",
     edges |-> "PrecedenceEdge", expressions |-> "Expression"]

StringListFields == {"inputs", "outputs"}

MapFields == {"properties"}

\* model_dump_json: field by field, lists in order
RECURSIVE model_dump_json(_)
model_dump_json(obj) ==
    [f \in DOMAIN obj |->
        IF f \in DOMAIN ListFields
        THEN [i \in DOMAIN obj[f] |-> model_dump_json(obj[f][i])]
        ELSE IF f \in StringListFields \cup MapFields
        THEN [i \in DOMAIN obj[f] |-> to_json_value(obj[f][i])]
        ELSE to_json_value(obj[f])]

\* model_validate / model_validate_json of the model named
RECURSIVE model_validate(_, _)
model_validate(model, data) ==
    [f \in DOMAIN data |->
        IF f \in DOMAIN ListFields
        THEN [i \in DOMAIN data[f] |-> model_validate(ListFields[f], data[f][i])]
        ELSE IF f \in StringListFields
        THEN [i \in DOMAIN data[f] |->
                validate_value([k |-> "str", cls |-> ""], data[f][i])]
        ELSE IF f \in MapFields
        THEN [i \in DOMAIN data[f] |->
                validate_value([k |-> "any", cls |-> ""], data[f][i])]
        ELSE validate_value(FieldType(model, f), data[f])]

\* whether validation met a value its field does not admit
RECURSIVE HasInvalid(_)
HasInvalid(obj) ==
    \E f \in DOMAIN obj :
        IF f \in DOMAIN ListFields
        THEN \E i \in DOMAIN obj[f] : HasInvalid(obj[f][i])
        ELSE IF f \in StringListFields \cup MapFields
        THEN \E i \in DOMAIN obj[f] : obj[f][i] = Invalid
        ELSE obj[f] = Invalid

\* Python's == on scalars: the enumerations mix in str, so a member equals
\* its value string; otherwise equal type and equal value
py_eq(a, b) ==
    /\ a.v = b.v
    /\ \/ a.py = b.py /\ a.cls = b.cls
       \/ {a.py, b.py} = {"str", "enum"}

\* BaseModel.__eq__: the same fields holding equal values, lists in order
RECURSIVE model_eq(_, _)
model_eq(a, b) ==
    /\ DOMAIN a = DOMAIN b
    /\ \A f \in DOMAIN a :
          IF f \in DOMAIN ListFields
          THEN /\ DOMAIN a[f] = DOMAIN b[f]
               /\ \A i \in DOMAIN a[f] : model_eq(a[f][i], b[f][i])
          ELSE IF f \in StringListFields \cup MapFields
          THEN /\ DOMAIN a[f] = DOMAIN b[f]
               /\ \A i \in DOMAIN a[f] : py_eq(a[f][i], b[f][i])
          ELSE py_eq(a[f], b[f])

ir_to_json(package) == model_dump_json(package)

\* ir_from_json: json.loads, then IRPackage.model_validate
ir_from_json(json_str) ==
    LET package == model_validate("IRPackage", json_str) IN
    IF HasInvalid(package)
    THEN [raised |-> "ValidationError", package |-> NoPackage]
    ELSE [raised |-> "", package |-> package]

\* json_to_ir_package: IRPackage.model_validate_json
json_to_ir_package(json_str) == ir_from_json(json_str)

\* ---- the packages serialized ----

ParameterRecords ==
    {[name |-> PyStr("BatchSize"), type |-> PyStr("Int32"), value |-> v]
        : v \in {PyNone, PyStr("100")}}

VariableRecords ==
    {[name |-> PyStr("RunDate"), type |-> PyStr("DateTime"),
      value |-> PyNone, scope |-> PyStr("Package")]}

ConnectionManagerRecords ==
    {[id |-> PyStr("cm1"), name |-> PyStr("Source"),
      type |-> PyMember("ConnectionType", "OLEDB"), properties |-> props]
        : props \in {EmptyDict, Put(EmptyDict, "Password", PyStr(REDACTED))}}

\* a component as the data-flow parser builds it: keep_identity is a bool
DataFlowComponentRecords ==
    {[id |-> PyStr("c1"),
      component_type |-> PyMember("ComponentType", "OLEDBDestination"),
      name |-> PyStr("Load"), ref |-> ref, mode |-> PyNone,
      properties |-> Put(EmptyDict, "keep_identity", PyBool("true")),
      inputs |-> <<PyStr("path1")>>, outputs |-> <<>>]
        : ref \in {PyNone, PyStr("dim_customer")}}

\* Sequences over S of length at most n
ListsUpTo(S, n) == UNION {[1..k -> S] : k \in 0..n}

\* dialect: not set, the str the reader assigns after construction, or the
\* member a caller passes to Executable(...)
ExecutableRecords(n) ==
    {[id |-> PyStr("Package\\Task1"),
      type |-> PyMember("ExecutableType", "DataFlow"),
      object_name |-> PyStr("Task1"), dialect |-> PyNone, components |-> cs]
        : cs \in ListsUpTo(DataFlowComponentRecords, n)}
    \cup {[id |-> PyStr("Package\\Task2"),
           type |-> PyMember("ExecutableType", "ExecuteSQL"),
           object_name |-> PyStr("Task2"), dialect |-> d, components |-> <<>>]
            : d \in {PyStr("tsql"), PyMember("SqlDialect", "ansi")}}

PrecedenceEdgeRecords ==
    {[from_task |-> PyStr("Package\\Task1"), to_task |-> PyStr("Package\\Task2"),
      condition |-> PyMember("PrecedenceCondition", "Success"),
      expression |-> PyNone, logical_and |-> PyBool("true")],
     [from_task |-> PyStr("Package\\Task2"), to_task |-> PyStr("Package\\Task1"),
      condition |-> PyMember("PrecedenceCondition", "Expression"),
      expression |-> PyStr("@[User::Count] > 0"), logical_and |-> PyBool("false")]}

ExpressionRecords ==
    {[scope |-> PyStr("Package"), property |-> PyStr("SqlStatementSource"),
      expression |-> PyStr("@[User::Query]")]}

\* the records an executable stands for: itself and its components
RECURSIVE RecordCount(_)
RecordCount(executables) ==
    IF executables = <<>> THEN 0
    ELSE 1 + Len(Head(executables).components) + RecordCount(Tail(executables))

\* Lists of executables standing for at most n records
RECURSIVE ExecutableRecordLists(_)
ExecutableRecordLists(n) ==
    IF n = 0 THEN {<<>>}
    ELSE LET rests == [k \in 0..(n - 1) |-> ExecutableRecordLists(k)] IN
         {<<>>} \cup
         UNION {{<<exe>> \o rest : rest \in rests[n - 1 - Len(exe.components)]}
                    : exe \in ExecutableRecords(n - 1)}

\* protection_level: the default, which pydantic does not validate and so
\* stays a member, or a level passed in, stored as its value
ProtectionLevelValues ==
    {PyMember("ProtectionLevel", "DontSaveSensitive"),
     PyStr("EncryptSensitiveWithPassword")}

\* The IRPackages holding at most n records
IRPackages(n) ==
    UNION {UNION {UNION {UNION {UNION {
        {[package_name |-> PyStr("Package1"), protection_level |-> pl,
          version_build |-> PyNone,
          parameters |-> ps, variables |-> vs, connection_managers |-> cms,
          executables |-> exes, edges |-> es, expressions |-> xs]
            : pl \in ProtectionLevelValues,
              xs \in ListsUpTo(ExpressionRecords,
                        n - Len(ps) - Len(vs) - Len(cms) - RecordCount(exes)
                          - Len(es))}
        : es \in ListsUpTo(PrecedenceEdgeRecords,
                    n - Len(ps) - Len(vs) - Len(cms) - RecordCount(exes))}
        : exes \in ExecutableRecordLists(n - Len(ps) - Len(vs) - Len(cms))}
        : cms \in ListsUpTo(ConnectionManagerRecords, n - Len(ps) - Len(vs))}
        : vs \in ListsUpTo(VariableRecords, n - Len(ps))}
        : ps \in ListsUpTo(ParameterRecords, n)}

NoJson == [package_name |-> JNull]

NoBack == [raised |-> "", package |-> NoPackage]

JsonInit ==
    /\ j_package \in IRPackages(MaxRecords)
    /\ j_json = NoJson
    /\ j_back = NoBack
    /\ j_pc = "dump"

JsonIdle ==
    /\ j_package = NoPackage
    /\ j_json = NoJson
    /\ j_back = NoBack
    /\ j_pc = "idle"

\* json_str = ir_to_json(package)
IrToJson ==
    /\ j_pc = "dump"
    /\ j_json' = ir_to_json(j_package)
    /\ j_pc' = "load"
    /\ UNCHANGED <<j_package, j_back>>
    /\ UNCHANGED jsonFrame

\* package2 = ir_from_json(json_str)
IrFromJson ==
    /\ j_pc = "load"
    /\ j_back' = ir_from_json(j_json)
    /\ j_pc' = "done_ir_from_json"
    /\ UNCHANGED <<j_package, j_json>>
    /\ UNCHANGED jsonFrame

\* package2 = json_to_ir_package(json_str)
JsonToIrPackage ==
    /\ j_pc = "load"
    /\ j_back' = json_to_ir_package(j_json)
    /\ j_pc' = "done_json_to_ir_package"
    /\ UNCHANGED <<j_package, j_json>>
    /\ UNCHANGED jsonFrame

JsonNext ==
    \/ IrToJson
    \/ IrFromJson
    \/ JsonToIrPackage

-----------------------------------------------------------------------------
(* SSISSecurityHandler.handle_protection_level, called on its own *)

\* Property maps with at most n keys
PropertyMaps(n) ==
    UNION {[K -> {"raw", "secret"}]
            : K \in {S \in SUBSET PropertyNames : Cardinality(S) <= n}}

\* redacted = properties.copy(): the dict object written to is a new one
properties_alias(ref) == ref

properties_copy(ref) == ref + 1

SecInit ==
    /\ s_level \in ProtectionLevel
    /\ s_password \in Passwords \cup {""}
    /\ s_input \in PropertyMaps(MaxProps)
    /\ s_heap = [ref \in 1..2 |-> IF ref = 1 THEN s_input ELSE EmptyDict]
    /\ s_out = [raised |-> "", ref |-> 0]
    /\ s_pc = "call"

SecIdle ==
    /\ s_level = "DontSaveSensitive"
    /\ s_password = NoPassword
    /\ s_input = EmptyDict
    /\ s_heap = [ref \in 1..2 |-> EmptyDict]
    /\ s_out = [raised |-> "", ref |-> 0]
    /\ s_pc = "idle"

\* handle_protection_level(protection_level, properties): every level of
\* the enumeration either raises or returns what
\* _redact_sensitive_properties built in the copy
HandleProtectionLevel ==
    /\ s_pc = "call"
    /\ LET r == handle_protection_level(s_password, s_level, s_heap[1]) IN
       \/ /\ r.raised # ""
          /\ s_out' = [raised |-> r.raised, ref |-> 0]
          /\ UNCHANGED s_heap
       \/ /\ r.raised = ""
          /\ s_out' = [raised |-> "", ref |-> properties_copy(1)]
          /\ s_heap' = [s_heap EXCEPT ![properties_copy(1)] = r.value]
    /\ s_pc' = "done"
    /\ UNCHANGED <<s_level, s_password, s_input>>
    /\ UNCHANGED secFrame

SecNext == HandleProtectionLevel

-----------------------------------------------------------------------------
(* IRProject.recommend_migration_strategy and MasterDAGGenerator *)

has_cross_package_dependencies(dependencies) == Len(dependencies) > 0

\* get_transformation_packages / get_orchestration_packages
get_transformation_packages(packages, transformation) ==
    SelectSeq(packages, LAMBDA pkg_name : transformation[pkg_name])

get_orchestration_packages(packages, transformation) ==
    SelectSeq(packages, LAMBDA pkg_name : ~transformation[pkg_name])

\* 'needs_master_dag': has_dependencies and len(self.entry_points) > 1
needs_master_dag(has_dependencies, entry_points) ==
    has_dependencies /\ Len(entry_points) > 1

recommend_migration_strategy(packages, dependencies, entry_points, transformation) ==
    LET transform_pkgs == get_transformation_packages(packages, transformation)
        orchestration_pkgs == get_orchestration_packages(packages, transformation)
        has_dependencies == has_cross_package_dependencies(dependencies)
    IN [strategy |->
            IF Len(transform_pkgs) = Len(packages)
            THEN (IF has_dependencies THEN "dbt_with_orchestration"
                  ELSE "dbt_only")
            ELSE IF Len(orchestration_pkgs) = Len(packages)
                 THEN "airflow_only" ELSE "mixed",
        dbt_packages |-> transform_pkgs,
        airflow_packages |-> orchestration_pkgs,
        needs_master_dag |-> needs_master_dag(has_dependencies, entry_points)]

NoStrategy ==
    [strategy |-> "", dbt_packages |-> <<>>, airflow_packages |-> <<>>,
     needs_master_dag |-> FALSE]

\* the keys of generated_files: 'master' when the strategy asks for it, one
\* per package, 'connections' and 'requirements'
generate_master_dag(packages, dependencies, entry_points, transformation) ==
    LET strategy == recommend_migration_strategy(packages, dependencies,
                                                 entry_points, transformation)
    IN [master |-> strategy.needs_master_dag,
        packages |-> SeqToSet(packages),
        connections |-> TRUE,
        requirements |-> TRUE]

NoFiles ==
    [master |-> FALSE, packages |-> {}, connections |-> FALSE,
     requirements |-> FALSE]

\* An IRProject after the analysis: its entry points are the packages that
\* no dependency names as child
StratInit ==
    /\ m_packages \in PackageLists
    /\ m_dependencies \in DepLists(m_packages)
    /\ m_entry_points = EntryPoints(m_packages, executed_packages(m_dependencies))
    /\ m_transformation \in [SeqToSet(m_packages) -> BOOLEAN]
    /\ m_strategy = NoStrategy
    /\ m_files = NoFiles
    /\ m_pc = "call"

StratIdle ==
    /\ m_packages = <<>>
    /\ m_dependencies = <<>>
    /\ m_entry_points = <<>>
    /\ m_transformation = EmptyDict
    /\ m_strategy = NoStrategy
    /\ m_files = NoFiles
    /\ m_pc = "idle"

\* strategy = ir_project.recommend_migration_strategy()
RecommendMigrationStrategy ==
    /\ m_pc = "call"
    /\ m_strategy' = recommend_migration_strategy(m_packages, m_dependencies,
                                                  m_entry_points, m_transformation)
    /\ m_pc' = "recommended"
    /\ UNCHANGED <<m_packages, m_dependencies, m_entry_points,
                   m_transformation, m_files>>
    /\ UNCHANGED stratFrame

\* generated_files = generator.generate_master_dag(ir_project, output_dir)
GenerateMasterDag ==
    /\ m_pc = "recommended"
    /\ m_files' = generate_master_dag(m_packages, m_dependencies,
                                      m_entry_points, m_transformation)
    /\ m_pc' = "generated"
    /\ UNCHANGED <<m_packages, m_dependencies, m_entry_points,
                   m_transformation, m_strategy>>
    /\ UNCHANGED stratFrame

StratNext ==
    \/ RecommendMigrationStrategy
    \/ GenerateMasterDag

-----------------------------------------------------------------------------
(* DataFlowParser._parse_paths and _wire_components, called on their own *)

\* The DataFlowComponent objects of the elements _parse_components retains,
\* built with every required field given (ref=None, mode=None): inputs and
\* outputs are new empty lists
RECURSIVE BuiltComponents(_)
BuiltComponents(comp_elements) ==
    IF comp_elements = <<>> THEN <<>>
    ELSE LET comp_elem == Head(comp_elements)
             kept == /\ comp_elem.id # ""
                     /\ comp_elem.name # ""
                     /\ _map_component_type(comp_elem.componentClassID) # ""
         IN (IF kept
             THEN <<DataFlowComponent(
                       [id |-> comp_elem.id,
                        component_type |->
                            _map_component_type(comp_elem.componentClassID),
                        name |-> comp_elem.name,
                        ref |-> "None", mode |-> "None"]).value>>
             ELSE <<>>)
            \o BuiltComponents(Tail(comp_elements))

\* The component lists of pipelines with at most n component elements
ComponentLists(n) ==
    {BuiltComponents(cs) : cs \in UNION {[1..k -> ComponentElems] : k \in 0..n}}

\* Pipeline:path elements, one of them ending at an id no component carries
WirePathElems ==
    PathElems \cup {[id |-> "p2", startId |-> "c2", endId |-> "c3"]}

\* The Pipeline:path elements of one pipeline, at most n of them
PathLists(n) == UNION {[1..k -> WirePathElems] : k \in 0..n}

\* DataFlowParser(namespaces), and the components of the first pipeline
WireInit ==
    /\ w_path_connections = <<>>
    /\ w_components \in ComponentLists(MaxFlowComps)
    /\ w_calls = 0
    /\ w_last = ""

WireIdle ==
    /\ w_path_connections = <<>>
    /\ w_components = <<>>
    /\ w_calls = 0
    /\ w_last = ""

\* self._parse_paths(pipeline)
ParsePaths ==
    /\ w_calls < MaxWireCalls
    /\ \E ps \in PathLists(MaxConnections) :
          /\ Len(_parse_paths(ps, w_path_connections)) <= MaxConnections
          /\ w_path_connections' = _parse_paths(ps, w_path_connections)
    /\ w_calls' = w_calls + 1
    /\ w_last' = "_parse_paths"
    /\ UNCHANGED w_components
    /\ UNCHANGED wireFrame

\* self._wire_components(components): the components are changed in place
WireComponents ==
    /\ w_calls < MaxWireCalls
    /\ w_components' = _wire_components(w_components, w_path_connections)
    /\ w_calls' = w_calls + 1
    /\ w_last' = "_wire_components"
    /\ UNCHANGED w_path_connections
    /\ UNCHANGED wireFrame

\* the components of the next pipeline are built
NextComponents ==
    /\ w_calls < MaxWireCalls
    /\ w_components' \in ComponentLists(MaxFlowComps)
    /\ w_calls' = w_calls + 1
    /\ w_last' = "_parse_components"
    /\ UNCHANGED w_path_connections
    /\ UNCHANGED wireFrame

WireNext ==
    \/ ParsePaths
    \/ WireComponents
    \/ NextComponents

-----------------------------------------------------------------------------
(* PrecedenceParser.parse_precedence_constraints, called on its own *)

\* DTS:Value as written in a document: the names and codes of the table, a
\* name in another case, a string outside the table, or missing ("")
RawConditionValues ==
    {"", "Success", "Failure", "Completion", "Expression",
     "0", "1", "2", "3", "success", "Bogus"}

\* The constraint elements: between two tasks with every value, lacking
\* DTS:From or DTS:To, and expression constraints with their expression in
\* any of the three places (" " is white space only)
ValuedConstraintElems ==
    {Constraint(1, 2, v) : v \in RawConditionValues}
    \cup {Constraint(0, 2, "Success"), Constraint(1, 0, "Failure")}
    \cup {[from |-> 2, to |-> 1, value |-> v,
           property |-> p, nested |-> n, inline |-> i]
            : v \in {"Expression", "3"}, p \in {"", " ", " p "},
              n \in {"", "n"}, i \in {"", "i"}}

ValuedConstraintLists(n) ==
    UNION {[1..k -> ValuedConstraintElems] : k \in 0..n}

NoEdges == <<>>

PrecInit ==
    /\ k_constraints \in ValuedConstraintLists(MaxConstraints)
    /\ k_edges = NoEdges
    /\ k_pc = "call"

PrecIdle ==
    /\ k_constraints = <<>>
    /\ k_edges = NoEdges
    /\ k_pc = "idle"

\* edges = precedence_parser.parse_precedence_constraints(reader.root)
ParsePrecedenceConstraints ==
    /\ k_pc = "call"
    /\ k_edges' = parse_precedence_constraints(k_constraints)
    /\ k_pc' = "done"
    /\ UNCHANGED k_constraints
    /\ UNCHANGED precFrame

PrecNext == ParsePrecedenceConstraints

-----------------------------------------------------------------------------
(* PrecedenceParser.group_parallel_tasks and
   AirflowDAGGenerator._identify_parallel_groups *)

\* A dict is kept as the list of its items in insertion order.
\* d[key].append(x), after d[key] = [] when key is not in d
AppendAt(d, key, x) ==
    IF \E i \in DOMAIN d : d[i].key = key
    THEN [i \in DOMAIN d |->
            IF d[i].key = key
            THEN [key |-> key, value |-> Append(d[i].value, x)]
            ELSE d[i]]
    ELSE Append(d, [key |-> key, value |-> <<x>>])

\* by_source of group_parallel_tasks: every edge is entered
RECURSIVE BySource(_)
BySource(edges) ==
    IF edges = <<>> THEN <<>>
    ELSE AppendAt(BySource(SubSeq(edges, 1, Len(edges) - 1)),
                  edges[Len(edges)].from_task, edges[Len(edges)].to_task)

\* by_source of _identify_parallel_groups: the Success edges are entered
RECURSIVE BySourceSuccess(_)
BySourceSuccess(edges) ==
    IF edges = <<>> THEN <<>>
    ELSE LET before == BySourceSuccess(SubSeq(edges, 1, Len(edges) - 1))
             edge == edges[Len(edges)]
         IN IF edge.condition = "Success"
            THEN AppendAt(before, edge.from_task, edge.to_task)
            ELSE before

\* [e.to_task for e in success_edges] for one source
SuccessTargets(edges, source) ==
    LET success_edges ==
            SelectSeq(edges, LAMBDA e : e.from_task = source
                                          /\ e.condition = "Success")
    IN [i \in DOMAIN success_edges |-> success_edges[i].to_task]

\* the second loop of group_parallel_tasks, over by_source.items()
RECURSIVE ParallelGroupsOf(_, _)
ParallelGroupsOf(by_source, edges) ==
    IF by_source = <<>> THEN <<>>
    ELSE LET item == Head(by_source)
             rest == ParallelGroupsOf(Tail(by_source), edges)
         IN IF Len(item.value) > 1
               /\ Len(SuccessTargets(edges, item.key)) > 1
            THEN <<[key |-> item.key,
                    value |-> SuccessTargets(edges, item.key)]>> \o rest
            ELSE rest

RECURSIVE AllTargetGroupsOf(_, _)
AllTargetGroupsOf(by_source, edges) ==
    IF by_source = <<>> THEN <<>>
    ELSE LET item == Head(by_source)
             rest == AllTargetGroupsOf(Tail(by_source), edges)
         IN IF Len(item.value) > 1
            THEN <<item>> \o rest
            ELSE rest

group_parallel_tasks_of_all_targets(edges) ==
    AllTargetGroupsOf(BySource(edges), edges)

group_parallel_tasks(edges) == ParallelGroupsOf(BySource(edges), edges)

_identify_parallel_groups(edges) ==
    SelectSeq(BySourceSuccess(edges), LAMBDA item : Len(item.value) > 1)

\* PrecedenceEdge lists of at most n edges between two sources and three
\* targets
ConditionedEdges ==
    {[from_task |-> f, to_task |-> t, condition |-> c]
        : f \in {"A", "B"}, t \in {"A", "B", "C"}, c \in {"Success", "Failure"}}

ConditionedEdgeLists(n) == UNION {[1..k -> ConditionedEdges] : k \in 0..n}

NoGroups == <<>>

GroupInit ==
    /\ g_edges \in ConditionedEdgeLists(MaxEdges)
    /\ g_parallel_groups = NoGroups
    /\ g_generator_groups = NoGroups
    /\ g_pc = "call"

GroupIdle ==
    /\ g_edges = <<>>
    /\ g_parallel_groups = NoGroups
    /\ g_generator_groups = NoGroups
    /\ g_pc = "idle"

\* PrecedenceParser.group_parallel_tasks(edges)
GroupParallelTasks ==
    /\ g_pc = "call"
    /\ g_parallel_groups' = group_parallel_tasks(g_edges)
    /\ g_pc' = "grouped"
    /\ UNCHANGED <<g_edges, g_generator_groups>>
    /\ UNCHANGED groupFrame

\* AirflowDAGGenerator._identify_parallel_groups(ir_package.edges)
IdentifyParallelGroups ==
    /\ g_pc = "grouped"
    /\ g_generator_groups' = _identify_parallel_groups(g_edges)
    /\ g_pc' = "done"
    /\ UNCHANGED <<g_edges, g_parallel_groups>>
    /\ UNCHANGED groupFrame

GroupNext ==
    \/ GroupParallelTasks
    \/ IdentifyParallelGroups

-----------------------------------------------------------------------------
(* SSISProjectParser._parse_project_connections and
   ProjectToIRConverter._build_ir_project_metadata, called on their own *)

RawConnectionString == "Server=s;User ID=u;Password=p"

\* A ConnectionManager element of the connections file: its Name, the
\* text of its ConnectionString element ("absent" when there is none),
\* its CreationName and its ProtectionLevel ("" when the attribute is
\* missing)
ConnectionElems ==
    [name : {"A", "B"},
     connection_string : {"absent", "", RawConnectionString},
     creation_name : {"", "FlatFile"},
     protection_level : RawProtection]

ConnectionElemLists(n) == UNION {[1..k -> ConnectionElems] : k \in 0..n}

\* connections[name] = ..., the dict kept as its items in insertion order
SetAt(d, key, value) ==
    IF \E i \in DOMAIN d : d[i].key = key
    THEN [i \in DOMAIN d |->
            IF d[i].key = key THEN [key |-> key, value |-> value] ELSE d[i]]
    ELSE Append(d, [key |-> key, value |-> value])

\* the ProjectConnectionManager of project_parser.py built for one element
ParsedConnection(conn_node) ==
    [name |-> conn_node.name,
     connection_string |->
        IF conn_node.connection_string = "absent" THEN ""
        ELSE conn_node.connection_string,
     provider |->
        IF conn_node.creation_name = "" THEN "Unknown"
        ELSE conn_node.creation_name,
     protection_level |->
        IF conn_node.protection_level = "" THEN "EncryptSensitiveWithUserKey"
        ELSE conn_node.protection_level]

RECURSIVE _parse_project_connections(_)
_parse_project_connections(conn_nodes) ==
    IF conn_nodes = <<>> THEN <<>>
    ELSE SetAt(_parse_project_connections(
                    SubSeq(conn_nodes, 1, Len(conn_nodes) - 1)),
               conn_nodes[Len(conn_nodes)].name,
               ParsedConnection(conn_nodes[Len(conn_nodes)]))

\* _map_connection_type on the providers that occur: an exact key, then a
\* key contained in provider.upper(), then OLEDB
_map_connection_type(provider) ==
    CASE provider = "FlatFile" -> "FLATFILE"
      [] OTHER -> "OLEDB"

\* the ProjectConnectionManager of ir.py built for one item of
\* ssis_project.connection_managers
ProjectConnection(item) ==
    [id |-> <<"Project", item.key>>,
     name |-> item.value.name,
     type |-> _map_connection_type(item.value.provider),
     connection_string |-> item.value.connection_string,
     provider |-> item.value.provider,
     protection_level |-> item.value.protection_level]

\* the project_connections of _build_ir_project_metadata;
\* ProtectionLevel(value) raises ValueError for a string outside the
\* enumeration
_build_ir_project_metadata(connection_managers) ==
    IF \E i \in DOMAIN connection_managers :
            connection_managers[i].value.protection_level \notin ProtectionLevel
    THEN [raised |-> "ValueError", project_connections |-> <<>>]
    ELSE [raised |-> "",
          project_connections |->
              [i \in DOMAIN connection_managers |->
                  ProjectConnection(connection_managers[i])]]

ConnInit ==
    /\ x_conmgr \in ConnectionElemLists(MaxCMs)
    /\ x_connection_managers = <<>>
    /\ x_project_connections = <<>>
    /\ x_raised = ""
    /\ x_pc = "parse"

ConnIdle ==
    /\ x_conmgr = <<>>
    /\ x_connection_managers = <<>>
    /\ x_project_connections = <<>>
    /\ x_raised = ""
    /\ x_pc = "idle"

\* connection_managers = self._parse_project_connections(conmgr_xml)
ParseProjectConnections ==
    /\ x_pc = "parse"
    /\ x_connection_managers' = _parse_project_connections(x_conmgr)
    /\ x_pc' = "parsed"
    /\ UNCHANGED <<x_conmgr, x_project_connections, x_raised>>
    /\ UNCHANGED connFrame

\* ir_project = self._build_ir_project_metadata(ssis_project)
BuildIRProjectMetadata ==
    /\ x_pc = "parsed"
    /\ LET r == _build_ir_project_metadata(x_connection_managers) IN
          /\ x_project_connections' = r.project_connections
          /\ x_raised' = r.raised
          /\ x_pc' = IF r.raised = "" THEN "built" ELSE "raised"
    /\ UNCHANGED <<x_conmgr, x_connection_managers>>
    /\ UNCHANGED connFrame

ConnNext ==
    \/ ParseProjectConnections
    \/ BuildIRProjectMetadata

-----------------------------------------------------------------------------
(* ProjectToIRConverter._analyze_project_dependencies, called on its own
   with the IR that convert_file gives for the parent package *)

\* _extract_package_dependencies on the parent's file: one dependency per
\* SSIS.ExecutePackageTask element from position i on; task_name is the
\* element's ObjectName, written as its position like its refId
RECURSIVE InvocationDependencies(_, _)
InvocationDependencies(exes, i) ==
    IF i > Len(exes) THEN <<>>
    ELSE (IF exes[i] = "SSIS.ExecutePackageTask"
          THEN <<[parent_package |-> Stem, child_package |-> "Child",
                  task_name |-> i]>>
          ELSE <<>>)
         \o InvocationDependencies(exes, i + 1)

\* _find_execute_package_precedence; the IRPackage is never falsy
_find_execute_package_precedence(package_ir, task_name) ==
    LET execute_pkg_task ==
            SelectSeq(package_ir.executables,
                      LAMBDA exe : exe.id = task_name
                                      /\ exe.type = "ExecutePackage")
        targeting ==
            SelectSeq(package_ir.edges,
                      LAMBDA edge : edge.to_task = execute_pkg_task[1].id)
    IN IF execute_pkg_task = <<>> THEN "Success"
       ELSE IF targeting = <<>> THEN "Success"
       ELSE targeting[1].condition

\* the loop of _analyze_project_dependencies over ssis_project.dependencies
IRDependencies(dependencies, package_ir) ==
    [i \in DOMAIN dependencies |->
        [parent_package |-> dependencies[i].parent_package,
         child_package |-> dependencies[i].child_package,
         task_name |-> dependencies[i].task_name,
         precedence_constraint |->
            _find_execute_package_precedence(package_ir,
                                             dependencies[i].task_name)]]

InvInit ==
    /\ f_dependencies = <<>>
    /\ f_pc = "wait"

InvIdle ==
    /\ f_dependencies = <<>>
    /\ f_pc = "idle"

\* package_irs holds the IR of the parent, or the placeholder package when
\* its conversion raised
AnalyzeProjectDependencies ==
    /\ f_pc = "wait"
    /\ pc = "returned"
    /\ f_dependencies' =
          IRDependencies(InvocationDependencies(doc.exes, 1),
                         IF raised = "" THEN result.package
                         ELSE MinimalPackage(Stem))
    /\ f_pc' = "done"
    /\ UNCHANGED invFrame

-----------------------------------------------------------------------------
(* Specifications *)

Init == ConvInit /\ ValIdle /\ ProjIdle /\ TransIdle /\ DfIdle
        /\ ParseIdle /\ CpIdle /\ JsonIdle /\ SecIdle /\ StratIdle /\ HistIdle /\ WireIdle /\ PrecIdle /\ GroupIdle /\ ConnIdle /\ InvIdle

Next == ConvNext

Spec == Init /\ [][Next]_vars

InitEdges == ConvInitEdges /\ ValIdle /\ ProjIdle /\ TransIdle /\ DfIdle
        /\ ParseIdle /\ CpIdle /\ JsonIdle /\ SecIdle /\ StratIdle /\ HistIdle /\ WireIdle /\ PrecIdle /\ GroupIdle /\ ConnIdle /\ InvIdle

NextEdges == ConvNext

SpecEdges == InitEdges /\ [][NextEdges]_vars

InitFlows == ConvInitFlows /\ ValIdle /\ ProjIdle /\ TransIdle /\ DfIdle
        /\ ParseIdle /\ CpIdle /\ JsonIdle /\ SecIdle /\ StratIdle /\ HistIdle /\ WireIdle /\ PrecIdle /\ GroupIdle /\ ConnIdle /\ InvIdle

NextFlows == ConvNext

SpecFlows == InitFlows /\ [][NextFlows]_vars

InitRepeat == ConvInitRepeat /\ ValIdle /\ ProjIdle /\ TransIdle /\ DfIdle
        /\ ParseIdle /\ CpIdle /\ JsonIdle /\ SecIdle /\ StratIdle /\ HistIdle /\ WireIdle /\ PrecIdle /\ GroupIdle /\ ConnIdle /\ InvIdle

NextRepeat ==
    \/ Load
    \/ Extract
    \/ ParseDataFlows
    \/ Secure
    \/ Assemble
    \/ Validate
    \/ ValidateFailed
    \/ ConvertFileAgain

SpecRepeat == InitRepeat /\ [][NextRepeat]_vars

InitWire == ConvIdle /\ ValIdle /\ ProjIdle /\ TransIdle /\ DfIdle
        /\ ParseIdle /\ CpIdle /\ JsonIdle /\ SecIdle /\ StratIdle /\ HistIdle /\ WireInit /\ PrecIdle /\ GroupIdle /\ ConnIdle /\ InvIdle

NextWire ==
    \/ ParsePaths
    \/ WireComponents
    \/ NextComponents

SpecWire == InitWire /\ [][NextWire]_vars

InitConstraints == ConvIdle /\ ValIdle /\ ProjIdle /\ TransIdle /\ DfIdle
        /\ ParseIdle /\ CpIdle /\ JsonIdle /\ SecIdle /\ StratIdle /\ HistIdle /\ WireIdle /\ PrecInit /\ GroupIdle /\ ConnIdle /\ InvIdle

NextConstraints == PrecNext

SpecConstraints == InitConstraints /\ [][NextConstraints]_vars

InitGroups == ConvIdle /\ ValIdle /\ ProjIdle /\ TransIdle /\ DfIdle
        /\ ParseIdle /\ CpIdle /\ JsonIdle /\ SecIdle /\ StratIdle /\ HistIdle /\ WireIdle /\ PrecIdle /\ GroupInit /\ ConnIdle /\ InvIdle

NextGroups ==
    \/ GroupParallelTasks
    \/ IdentifyParallelGroups

SpecGroups == InitGroups /\ [][NextGroups]_vars

InitConnections == ConvIdle /\ ValIdle /\ ProjIdle /\ TransIdle /\ DfIdle
        /\ ParseIdle /\ CpIdle /\ JsonIdle /\ SecIdle /\ StratIdle /\ HistIdle /\ WireIdle /\ PrecIdle /\ GroupIdle /\ ConnInit /\ InvIdle

NextConnections ==
    \/ ParseProjectConnections
    \/ BuildIRProjectMetadata

SpecConnections == InitConnections /\ [][NextConnections]_vars

InitInvocation == ConvInitEdges /\ ValIdle /\ ProjIdle /\ TransIdle /\ DfIdle
        /\ ParseIdle /\ CpIdle /\ JsonIdle /\ SecIdle /\ StratIdle /\ HistIdle /\ WireIdle /\ PrecIdle /\ GroupIdle /\ ConnIdle /\ InvInit

NextInvocation ==
    \/ Load
    \/ Extract
    \/ ParseDataFlows
    \/ Secure
    \/ Assemble
    \/ Validate
    \/ ValidateFailed
    \/ AnalyzeProjectDependencies

SpecInvocation == InitInvocation /\ [][NextInvocation]_vars

InitValidate == ConvIdle /\ ValInit /\ ProjIdle /\ TransIdle /\ DfIdle
        /\ ParseIdle /\ CpIdle /\ JsonIdle /\ SecIdle /\ StratIdle /\ HistIdle /\ WireIdle /\ PrecIdle /\ GroupIdle /\ ConnIdle /\ InvIdle

NextValidate == ValNext

SpecValidate == InitValidate /\ [][NextValidate]_vars

InitProject == ConvIdle /\ ValIdle /\ ProjInit /\ TransIdle /\ DfIdle
        /\ ParseIdle /\ CpIdle /\ JsonIdle /\ SecIdle /\ StratIdle /\ HistIdle /\ WireIdle /\ PrecIdle /\ GroupIdle /\ ConnIdle /\ InvIdle

NextProject == ProjNext

SpecProject == InitProject /\ [][NextProject]_vars

\* analyze_project_structure runs in one thread that is never suspended
\* for good: a step that can be taken is taken
SpecProjectLive == SpecProject /\ WF_vars(NextProject)

InitTransform == ConvIdle /\ ValIdle /\ ProjIdle /\ TransInit /\ DfIdle
        /\ ParseIdle /\ CpIdle /\ JsonIdle /\ SecIdle /\ StratIdle /\ HistIdle /\ WireIdle /\ PrecIdle /\ GroupIdle /\ ConnIdle /\ InvIdle

NextTransform == TransNext

SpecTransform == InitTransform /\ [][NextTransform]_vars

InitDataFlow == ConvIdle /\ ValIdle /\ ProjIdle /\ TransIdle /\ DfInit
        /\ ParseIdle /\ CpIdle /\ JsonIdle /\ SecIdle /\ StratIdle /\ HistIdle /\ WireIdle /\ PrecIdle /\ GroupIdle /\ ConnIdle /\ InvIdle

NextDataFlow == DfNext

SpecDataFlow == InitDataFlow /\ [][NextDataFlow]_vars

InitJson == ConvIdle /\ ValIdle /\ ProjIdle /\ TransIdle /\ DfIdle
        /\ ParseIdle /\ CpIdle /\ JsonInit /\ SecIdle /\ StratIdle /\ HistIdle /\ WireIdle /\ PrecIdle /\ GroupIdle /\ ConnIdle /\ InvIdle

NextJson == JsonNext

SpecJson == InitJson /\ [][NextJson]_vars

InitSecure == ConvIdle /\ ValIdle /\ ProjIdle /\ TransIdle /\ DfIdle
        /\ ParseIdle /\ CpIdle /\ JsonIdle /\ SecInit /\ StratIdle /\ HistIdle /\ WireIdle /\ PrecIdle /\ GroupIdle /\ ConnIdle /\ InvIdle

NextSecure == SecNext

SpecSecure == InitSecure /\ [][NextSecure]_vars

InitStrategy == ConvIdle /\ ValIdle /\ ProjIdle /\ TransIdle /\ DfIdle
        /\ ParseIdle /\ CpIdle /\ JsonIdle /\ SecIdle /\ StratInit /\ HistIdle /\ WireIdle /\ PrecIdle /\ GroupIdle /\ ConnIdle /\ InvIdle

NextStrategy == StratNext

SpecStrategy == InitStrategy /\ [][NextStrategy]_vars

\* parse_project called on a project directory or .ispac archive
InitParse == ConvIdle /\ ValIdle /\ ProjIdle /\ TransIdle /\ DfIdle
        /\ ParseInit /\ CpIdle /\ JsonIdle /\ SecIdle /\ StratIdle /\ HistIdle /\ WireIdle /\ PrecIdle /\ GroupIdle /\ ConnIdle /\ InvIdle

NextParse == ParseNext

SpecParse == InitParse /\ [][NextParse]_vars

\* convert_project_to_ir called on the same projects
InitConvertProject == ConvIdle /\ ValIdle /\ ProjIdle /\ TransIdle /\ DfIdle
        /\ ParseNotStarted /\ CpInit /\ JsonIdle /\ SecIdle /\ StratIdle /\ HistIdle /\ WireIdle /\ PrecIdle /\ GroupIdle /\ ConnIdle /\ InvIdle

NextConvertProject == CpNext

SpecConvertProject == InitConvertProject /\ [][NextConvertProject]_vars

-----------------------------------------------------------------------------
(* Properties of convert_file *)

Returned == pc = "returned"

IsMinimal(pkg) == pkg = MinimalPackage(pkg.package_name)

FullyEncrypted(d) ==
    d.protection \in {"EncryptAllWithPassword", "EncryptAllWithUserKey"}

\* C1: a package whose protection level is EncryptAllWithPassword or
\* EncryptAllWithUserKey, converted without a password, comes back with
\* success = false, at least one error, and an IRPackage that carries only
\* its name, whatever connection managers and executables it declares.
C1_FullyEncryptedFails ==
    (Returned /\ doc.root = "DTS:Executable" /\ FullyEncrypted(doc)
        /\ NoPasswordGiven(password))
    => /\ result.report.success = FALSE
       /\ Len(result.report.errors) >= 1
       /\ IsMinimal(result.package)

C3_PasswordAlwaysRedacted ==
    Returned =>
        \A i \in 1..Len(result.package.connection_managers) :
            LET props == result.package.connection_managers[i].properties IN
            \A k \in DOMAIN props :
                Lower(k) = "password" => props[k] = REDACTED

\* a package converted with a password whose manager declares PASSWORD
C3_Witness ==
    /\ Returned
    /\ result.report.success
    /\ password = "pw"
    /\ doc.protection = "EncryptSensitiveWithPassword"
    /\ \E i \in 1..Len(result.package.connection_managers) :
           LET props == result.package.connection_managers[i].properties IN
           "PASSWORD" \in DOMAIN props /\ props["PASSWORD"] = REDACTED

\* C4: every property of a ConnectionManager returned by
\* DTSXReader.get_connection_managers whose key matches the security
\* handler's sensitive set, case-insensitively, holds "[REDACTED]".
C4_ReaderRedactsSensitiveSet ==
    \A i \in 1..Len(reader_cms) :
        \A k \in DOMAIN reader_cms[i].properties :
            _is_sensitive_property(k) => reader_cms[i].properties[k] = REDACTED

-----------------------------------------------------------------------------
(* Properties of validate_constraints *)

\* the ids reachable from id n along one or more edges
RECURSIVE ReachFrom(_, _)
ReachFrom(edges, S) ==
    LET T == S \cup {edges[i].to_task :
                        i \in {j \in 1..Len(edges) : edges[j].from_task \in S}}
    IN IF T = S THEN S ELSE ReachFrom(edges, T)

Successors(edges, n) ==
    {edges[i].to_task : i \in {j \in 1..Len(edges) : edges[j].from_task = n}}

OnCycle(edges, n) ==
    Successors(edges, n) # {} /\ n \in ReachFrom(edges, Successors(edges, n))

GraphHasCycle(edges) == \E n \in 1..MaxIds : OnCycle(edges, n)

CycleWarnings(issues) ==
    Cardinality({i \in 1..Len(issues) : issues[i].kind = "cycle"})

\* C5: for every edge list and every list of known task ids,
\* validate_constraints returns exactly one cycle warning if the graph of
\* the edges contains a cycle and none if it is acyclic.
C5_CycleFlaggedExactlyOnce ==
    v_pc = "done" =>
        CycleWarnings(v_issues) = (IF GraphHasCycle(v_edges) THEN 1 ELSE 0)

-----------------------------------------------------------------------------
(* Properties of analyze_project_structure *)

Analyzed == p_pc = "analyzed"

PkgSet == SeqToSet(p_packages)
DepSet == SeqToSet(p_deps)

\* C6: analyze_project_structure terminates for every package set and
\* dependency list, with self-invocations and circular chains: every call
\* of _trace_execution_chain returns and the analysis is delivered.
C6_AnalysisTerminates == <>(Analyzed /\ p_stack = <<>>)

\* a call that finds its package already visited: a circular chain
C6_Witness ==
    /\ p_pc = "chains"
    /\ p_stack # <<>>
    /\ Top.i = 0
    /\ Top.start_package \in Top.visited
    /\ Len(p_stack) >= 3

\* the dependencies of the well-formed package files of a project
RECURSIVE DeclaredDependencies(_, _)
DeclaredDependencies(docs, i) ==
    IF i > Len(docs) THEN <<>>
    ELSE (IF docs[i].kind = "wellformed"
          THEN TargetDependencies(i, docs[i].targets)
          ELSE <<>>)
         \o DeclaredDependencies(docs, i + 1)

\* the packages of the project that no well-formed package file invokes
UninvokedPackages(docs) ==
    {n \in 1..Len(docs) :
        \A d \in SeqToSet(DeclaredDependencies(docs, 1)) : d.child_package # n}

CallFinished == cp_pc \in {"returned", "raised"}

\* C7: the entry points are exactly the packages that are child_package of
\* no dependency, in package order, and the IRProject that the project
\* conversion returns holds the same set in entry_points.
C7_EntryPoints ==
    /\ Analyzed =>
        /\ \A i \in 1..Len(p_analysis.entry_points) :
              /\ p_analysis.entry_points[i] \in PkgSet
              /\ \A d \in DepSet : d.child_package # p_analysis.entry_points[i]
        /\ \A n \in PkgSet :
              (\A d \in DepSet : d.child_package # n)
                  => n \in SeqToSet(p_analysis.entry_points)
        /\ \A i, j \in 1..Len(p_analysis.entry_points) :
              i < j => p_analysis.entry_points[i] < p_analysis.entry_points[j]
    /\ CallFinished =>
        /\ cp_pc = "returned"
        /\ SeqToSet(ir_project.entry_points) = UninvokedPackages(pp_docs)

\* C8: the isolated packages are exactly the packages that are neither
\* parent_package nor child_package of any dependency.
C8_IsolatedPackages ==
    Analyzed =>
        SeqToSet(p_analysis.isolated_packages) =
            {n \in PkgSet :
                \A d \in DepSet : d.parent_package # n /\ d.child_package # n}

\* a project with a dependency and a package outside every dependency
C8_Witness ==
    /\ p_pc = "analyzed"
    /\ p_deps # <<>>
    /\ p_analysis.isolated_packages # <<>>
    /\ \E n \in PkgSet :
          /\ n \notin SeqToSet(p_analysis.isolated_packages)
          /\ \A d \in DepSet : d.child_package # n

\* the sequences of distinct packages of the project
Paths ==
    {path \in UNION {[1..k -> PkgSet] : k \in 2..Len(p_packages)} :
        \A i, j \in 1..Len(path) : i # j => path[i] # path[j]}

\* the dependencies are the steps of the path, each once
IsSimplePath(path) ==
    /\ Len(p_deps) = Len(path) - 1
    /\ DepSet = {[parent_package |-> path[i], child_package |-> path[i + 1]] :
                    i \in 1..(Len(path) - 1)}

\* C9: when the dependencies form a simple path P1 -> ... -> Pn (n >= 2)
\* over the packages, there is exactly one execution chain, with
\* entry_point P1, chain [P1, ..., Pn] and length n.
C9_SimplePathChain ==
    Analyzed =>
        \A path \in Paths :
            IsSimplePath(path) =>
                p_analysis.execution_chains =
                    <<[entry_point |-> path[1], chain |-> path,
                       length |-> Len(path)]>>

\* the path 2 -> 1 -> 3, which does not follow the package order
C9_Witness ==
    /\ p_pc = "analyzed"
    /\ IsSimplePath(<<2, 1, 3>>)
    /\ Len(p_analysis.execution_chains) = 1

-----------------------------------------------------------------------------
(* Properties of is_transformation_only *)

\* C10: is_transformation_only is true exactly when no executable has type
\* BulkInsert, FileSystem, FTP or WebService and no component of a
\* DataFlow executable has type FlatFileSource or FlatFileDestination; a
\* package without executables is transformation-only.
C10_TransformationOnly ==
    t_pc = "done" =>
        (t_result = TRUE <=>
            /\ \A i \in 1..Len(t_executables) :
                  t_executables[i].type \notin
                      {"BulkInsert", "FileSystem", "FTP", "WebService"}
            /\ \A i \in 1..Len(t_executables) :
                  t_executables[i].type = "DataFlow" =>
                      \A j \in 1..Len(t_executables[i].components) :
                          t_executables[i].components[j] \notin
                              {"FlatFileSource", "FlatFileDestination"})

\* a package refused only because of a WebService task that follows a
\* data flow reading a database
C10_Witness ==
    /\ t_pc = "done"
    /\ t_result = FALSE
    /\ Len(t_executables) = 2
    /\ t_executables[1] =
          [type |-> "DataFlow", components |-> <<"OLEDBSource">>]
    /\ t_executables[2].type = "WebService"

-----------------------------------------------------------------------------
(* Properties of DataFlowParser *)

\* the component elements parse_dataflow is documented to retain
Retained(comp_elem) ==
    /\ comp_elem.id # ""
    /\ comp_elem.name # ""
    /\ _map_component_type(comp_elem.componentClassID) # ""

RetainedIds(obj_data) ==
    {obj_data.components[i].id : i \in
        {j \in 1..Len(obj_data.components) : Retained(obj_data.components[j])}}

DistinctRetained(obj_data) ==
    \A i, j \in 1..Len(obj_data.components) :
        (/\ Retained(obj_data.components[i])
         /\ Retained(obj_data.components[j])
         /\ obj_data.components[i].id = obj_data.components[j].id) => i = j

\* the declared paths of obj_data whose start and end are retained components
KnownPaths(obj_data) ==
    {q \in SeqToSet(obj_data.paths) :
        q.startId \in RetainedIds(obj_data) /\ q.endId \in RetainedIds(obj_data)}

\* C11: a newly constructed DataFlowParser that parses a pipeline returns
\* its retained components, and every declared path with known start and
\* end components has its id in exactly the start component's outputs and
\* the end component's inputs (so a chain c1 -p1-> c2 gives c1.outputs =
\* [p1], c2.inputs = [p1] and nothing else).
C11_PathsWireStartAndEnd ==
    (Len(df_results) >= 1 /\ df_pipelines[1].has_pipeline
        /\ DistinctRetained(df_pipelines[1])) =>
        LET obj_data == df_pipelines[1]
            r == df_results[1] IN
        /\ r.raised = ""
        /\ {r.components[i].id : i \in 1..Len(r.components)}
               = RetainedIds(obj_data)
        /\ \A i \in 1..Len(r.components) :
              /\ SeqToSet(r.components[i].outputs) =
                    {q.id : q \in {k \in KnownPaths(obj_data) :
                                      k.startId = r.components[i].id}}
              /\ SeqToSet(r.components[i].inputs) =
                    {q.id : q \in {k \in KnownPaths(obj_data) :
                                      k.endId = r.components[i].id}}

-----------------------------------------------------------------------------
(* Properties of the project conversion *)

\* C12: convert_project completes and returns an IRProject whose
\* package_irs has one entry for every enumerated package; a package whose
\* conversion fails is mapped to a placeholder IRPackage carrying only its
\* name, and the dependency list and the entry points are those of the
\* project whatever conversion fails.
C12_ProjectConversionCompletes ==
    CallFinished =>
        /\ cp_pc = "returned"
        /\ DOMAIN ir_project.package_irs = 1..Len(pp_docs)
        /\ \A n \in 1..Len(pp_docs) :
              pp_docs[n].kind # "wellformed" =>
                  ir_project.package_irs[n] = MinimalPackage(n)
        /\ ir_project.dependencies = DeclaredDependencies(pp_docs, 1)
        /\ SeqToSet(ir_project.entry_points) = UninvokedPackages(pp_docs)

\* C13: parse_project builds the dependency list from the raw package
\* files, before any package is converted, and a package file that is
\* malformed contributes no dependency without aborting the scan: the call
\* returns, and the dependencies are those of the other package files.
C13_MalformedPackageTolerated ==
    pp_pc \in {"returned", "raised"} =>
        /\ pp_pc = "returned"
        /\ pp_project.dependencies = DeclaredDependencies(pp_docs, 1)
        /\ cp_pc = "idle"

-----------------------------------------------------------------------------
(* Properties of convert_file on documents with precedence constraints *)

\* the constraints of the document that have both ends and a known value
ParsedConstraints(d) ==
    SelectSeq(d.edges,
        LAMBDA c : /\ c.from # 0
                   /\ c.to # 0
                   /\ c.value \in {"", "Success", "Failure", "Completion",
                                   "Expression", "0", "1", "2", "3"})

\* how many entries of seq equal x
Occurrences(seq, x) == Cardinality({i \in DOMAIN seq : seq[i] = x})

\* the ids of the executables of the package's IR
IRIds(pkg) == {pkg.executables[i].id : i \in DOMAIN pkg.executables}

\* C14: when convert_file returns without an exception on a document with
\* precedence constraints, the report says success, IRPackage.edges holds
\* every parsed edge in document order, and for every id that is not the id
\* of an executable of the IR the report has one "unknown source task"
\* warning per edge leaving it and one "unknown target task" warning per
\* edge entering it, and none for the ids that are
C14_UnresolvedEdgeWarned ==
    (pc = "returned" /\ raised = "") =>
        LET edges == result.package.edges
            warnings == result.report.warnings
            ids == IRIds(result.package)
        IN /\ result.report.success
           /\ Len(edges) = Len(ParsedConstraints(doc))
           /\ \A i \in DOMAIN edges :
                 /\ edges[i].from_task = ParsedConstraints(doc)[i].from
                 /\ edges[i].to_task = ParsedConstraints(doc)[i].to
           /\ \A id \in 1..(MaxExes + 1) :
                 /\ Occurrences(warnings,
                        [kind |-> "unknown_source", ref |-> <<id>>])
                      = IF id \in ids THEN 0
                        ELSE Cardinality({i \in DOMAIN edges :
                                            edges[i].from_task = id})
                 /\ Occurrences(warnings,
                        [kind |-> "unknown_target", ref |-> <<id>>])
                      = IF id \in ids THEN 0
                        ELSE Cardinality({i \in DOMAIN edges :
                                            edges[i].to_task = id})

\* a successful conversion whose IR keeps an edge with both ends unresolved,
\* one of them the id of an element the reader left out of the IR
C14_Witness ==
    /\ pc = "returned"
    /\ raised = ""
    /\ result.report.success
    /\ doc.exes # <<>>
    /\ \E i \in DOMAIN result.package.edges :
          /\ result.package.edges[i].from_task \notin IRIds(result.package)
          /\ result.package.edges[i].to_task \notin IRIds(result.package)
          /\ result.package.edges[i].from_task \in DOMAIN doc.exes

-----------------------------------------------------------------------------
(* Properties of the JSON round trip *)

JsonDone == j_pc \in {"done_ir_from_json", "done_json_to_ir_package"}

-----------------------------------------------------------------------------
(* Properties of handle_protection_level *)

\* the property names that match the sensitive set when case is ignored
SensitiveNames == {"Password", "PASSWORD", "UserID"}

\* C17: for DontSaveSensitive, EncryptSensitiveWithPassword and
\* EncryptSensitiveWithUserKey, with or without a password,
\* handle_protection_level raises nothing and returns a map with the keys of
\* its input, "[REDACTED]" under every sensitive key and the input value
\* under every other key, and the dict passed in still holds what it held
C17_SensitiveLevelsRedact ==
    (s_pc = "done"
        /\ s_level \in {"DontSaveSensitive", "EncryptSensitiveWithPassword",
                        "EncryptSensitiveWithUserKey"}) =>
        /\ s_out.raised = ""
        /\ s_out.ref \in DOMAIN s_heap
        /\ DOMAIN s_heap[s_out.ref] = DOMAIN s_input
        /\ \A k \in DOMAIN s_input :
              s_heap[s_out.ref][k] =
                  IF k \in SensitiveNames THEN REDACTED ELSE s_input[k]
        /\ s_heap[1] = s_input

\* a call with a password under EncryptSensitiveWithUserKey on a map with a
\* sensitive key in upper case and a key that is not sensitive
C17_Witness ==
    /\ s_pc = "done"
    /\ s_level = "EncryptSensitiveWithUserKey"
    /\ s_password = "pw"
    /\ DOMAIN s_input = {"PASSWORD", "Timeout"}
    /\ s_out.raised = ""
    /\ s_heap[s_out.ref]["PASSWORD"] = REDACTED

-----------------------------------------------------------------------------
(* Properties of the orchestration decision *)

\* C18: for every IRProject with at least one cross-package dependency,
\* recommend_migration_strategy returns needs_master_dag = true and the
\* dict generate_master_dag returns has a 'master' entry
C18_DependenciesNeedMasterDag ==
    (m_pc = "generated" /\ Len(m_dependencies) >= 1) =>
        /\ m_strategy.needs_master_dag
        /\ m_files.master

-----------------------------------------------------------------------------
(* Properties of the migration report *)

\* the executable elements of the document whose type string is outside the
\* mapping table
UnmappedExecutables(d) ==
    {i \in DOMAIN d.exes : _map_executable_type(d.exes[i]) = ""}

\* C19: when convert_file returns without an exception on a document with k
\* executable elements of which u have an unmapped type, the report has
\* total_executables = k and supported_executables = k - u, and
\* unsupported_executables names exactly the u unmapped elements
C19_ReportDistinguishesUnsupported ==
    (pc = "returned" /\ raised = "") =>
        LET k == Len(doc.exes)
            u == Cardinality(UnmappedExecutables(doc))
            report == result.report
        IN /\ report.total_executables = k
           /\ report.supported_executables = k - u
           /\ Len(report.unsupported_executables) = u
           /\ SeqToSet(report.unsupported_executables) = UnmappedExecutables(doc)

-----------------------------------------------------------------------------
(* Properties of convert_file on documents with data-flow tasks *)

\* the ids of the paths a pipeline declares
DeclaredPathIds(obj_data) == {q.id : q \in SeqToSet(obj_data.paths)}

-----------------------------------------------------------------------------
(* Properties of the wiring *)

WiredIds == {w_components[i].id : i \in DOMAIN w_components}

\* the recorded paths whose start and end both name one of the components
ResolvedPaths ==
    {q \in SeqToSet(w_path_connections) :
        q.start \in WiredIds /\ q.end \in WiredIds}

-----------------------------------------------------------------------------
(* Properties of parse_precedence_constraints *)

\* the condition values with a meaning: the names, and the codes 0 to 3
ConditionValues ==
    {"Success", "Failure", "Completion", "Expression", "0", "1", "2", "3"}

ConditionOf(value) ==
    CASE value \in {"Success", "0"} -> "Success"
      [] value \in {"Failure", "1"} -> "Failure"
      [] value \in {"Completion", "2"} -> "Completion"
      [] value \in {"Expression", "3"} -> "Expression"

\* the constraints that yield an edge: both ends given, and a value with a
\* meaning or no value at all
EdgeConstraints ==
    SelectSeq(k_constraints,
        LAMBDA c : /\ c.from # 0
                   /\ c.to # 0
                   /\ c.value \in ConditionValues \cup {""})

\* C23: parse_precedence_constraints returns, in document order, one edge
\* for each constraint that has From and To and a condition value among
\* Success, Failure, Completion, Expression, 0, 1, 2, 3, with the condition
\* that value stands for (0 Success, 1 Failure, 2 Completion, 3 Expression);
\* a constraint whose value is present but outside that set yields no edge,
\* and the constraints after it are parsed all the same. (A constraint
\* without a value yields a Success edge.)
C23_EdgesOfKnownConditions ==
    k_pc = "done" =>
        /\ Len(k_edges) = Len(EdgeConstraints)
        /\ \A i \in DOMAIN k_edges :
              /\ k_edges[i].from_task = EdgeConstraints[i].from
              /\ k_edges[i].to_task = EdgeConstraints[i].to
              /\ k_edges[i].condition =
                    IF EdgeConstraints[i].value = "" THEN "Success"
                    ELSE ConditionOf(EdgeConstraints[i].value)

\* a constraint with an unknown value stands before one with the code 2,
\* and the list returned holds the Completion edge alone
C23_Witness ==
    /\ k_pc = "done"
    /\ Len(k_constraints) = 2
    /\ k_constraints[1].value = "Bogus"
    /\ k_constraints[2].value = "2"
    /\ Len(k_edges) = 1
    /\ k_edges[1].condition = "Completion"

\* the text of the first place of the constraint that provides an
\* expression; "None" when no place does
FirstExpression(c) ==
    IF strip(c.property) # "" THEN strip(c.property)
    ELSE IF strip(c.nested) # "" THEN strip(c.nested)
    ELSE IF strip(c.inline) # "" THEN strip(c.inline)
    ELSE "None"

\* C24: every edge returned whose condition is Expression carries a
\* non-empty expression text, the text of the first place that provides one
\* among the Expression property, the nested expression element and the
\* inline Expression attribute of the object data.
C24_ExpressionEdgesCarryText ==
    k_pc = "done" =>
        \A i \in DOMAIN k_edges :
            k_edges[i].condition = "Expression" =>
                /\ k_edges[i].expression \notin {"None", ""}
                /\ k_edges[i].expression = FirstExpression(EdgeConstraints[i])

-----------------------------------------------------------------------------
(* Properties of the parallel groups *)

\* the mapping a dict stands for, whatever the order of its items
AsMapping(d) == {<<d[i].key, d[i].value>> : i \in DOMAIN d}

\* the sources with at least two outgoing Success edges
FanOutSources ==
    {s \in {g_edges[i].from_task : i \in DOMAIN g_edges} :
        Cardinality({i \in DOMAIN g_edges :
                        g_edges[i].from_task = s
                            /\ g_edges[i].condition = "Success"}) >= 2}

\* C25: group_parallel_tasks maps a source task to a group exactly when it
\* has at least two outgoing Success edges, the group being the targets of
\* those edges in edge order, and _identify_parallel_groups returns the
\* same mapping for the same edge list.
C25_ParallelGroupsAgree ==
    g_pc = "done" =>
        /\ {g_parallel_groups[i].key : i \in DOMAIN g_parallel_groups}
               = FanOutSources
        /\ \A i, j \in DOMAIN g_parallel_groups :
              g_parallel_groups[i].key = g_parallel_groups[j].key => i = j
        /\ \A i \in DOMAIN g_parallel_groups :
              g_parallel_groups[i].value =
                  SuccessTargets(g_edges, g_parallel_groups[i].key)
        /\ AsMapping(g_generator_groups) = AsMapping(g_parallel_groups)

\* a source with two Success edges and a Failure edge between them
C25_Witness ==
    /\ g_pc = "done"
    /\ Len(g_edges) = 3
    /\ g_edges[1].from_task = "A" /\ g_edges[1].condition = "Success"
    /\ g_edges[2].from_task = "A" /\ g_edges[2].condition = "Failure"
    /\ g_edges[3].from_task = "A" /\ g_edges[3].condition = "Success"
    /\ g_parallel_groups =
          <<[key |-> "A", value |-> <<g_edges[1].to_task, g_edges[3].to_task>>]>>

-----------------------------------------------------------------------------
(* Properties of the execution chains *)

\* the chains of the analysis
Chains ==
    {p_analysis.execution_chains[i].chain :
        i \in DOMAIN p_analysis.execution_chains}

\* C26: no package name occurs more than once in an execution chain that
\* analyze_project_structure produced.
C26_ChainsWithoutRepetition ==
    Analyzed =>
        \A chain \in Chains :
            \A i, j \in DOMAIN chain : chain[i] = chain[j] => i = j

\* the packages that are parent or child of at least one dependency
Participants ==
    {n \in PkgSet :
        \E d \in DepSet : d.parent_package = n \/ d.child_package = n}

-----------------------------------------------------------------------------
(* Properties of get_root_tasks *)

\* every from-id and to-id of the edges is one of the task ids
EdgesWithinTasks ==
    \A i \in DOMAIN v_edges :
        /\ v_edges[i].from_task \in SeqToSet(v_task_ids)
        /\ v_edges[i].to_task \in SeqToSet(v_task_ids)

\* C30: for a non-empty list of task ids and edges between those ids, if
\* get_root_tasks returns the empty list then validate_constraints reports
\* the cycle warning on the same inputs.
C30_NoRootIsCyclic ==
    (v_pc = "rooted" /\ v_task_ids # <<>> /\ EdgesWithinTasks
        /\ v_roots = <<>>)
        => CycleWarnings(v_issues) >= 1

\* two tasks without root whose first task has no outgoing edge: the
\* cycle is found from the second
C30_Witness ==
    /\ v_pc = "rooted"
    /\ v_task_ids = <<1, 2>>
    /\ EdgesWithinTasks
    /\ v_roots = <<>>
    /\ \A i \in DOMAIN v_edges : v_edges[i].from_task = 2
    /\ CycleWarnings(v_issues) = 1

-----------------------------------------------------------------------------
(* Properties of the project connection managers *)

\* C28: for every project connection manager the connection string stored
\* in IRProject.project_connections is the redaction sentinel, not the
\* text read from the connections file, under every protection level.
C28_ProjectConnectionsRedacted ==
    x_pc = "built" =>
        \A i \in DOMAIN x_project_connections :
            x_project_connections[i].connection_string = REDACTED

-----------------------------------------------------------------------------
(* Properties of the package dependencies *)

\* the edges of the parent's IR that target the task of a dependency
EdgesTargeting(task_name) ==
    SelectSeq(result.package.edges, LAMBDA edge : edge.to_task = task_name)

\* C27: for every PackageDependency, precedence_constraint is the
\* condition of the precedence edge of the parent package's IR that
\* targets the invoking execute-package task, whenever such an edge exists.
C27_InvocationConditionRecorded ==
    (f_pc = "done" /\ raised = "") =>
        \A i \in DOMAIN f_dependencies :
            EdgesTargeting(f_dependencies[i].task_name) # <<>> =>
                f_dependencies[i].precedence_constraint =
                    EdgesTargeting(f_dependencies[i].task_name)[1].condition

====
